---- MODULE Spec2Model ----
(***************************************************************************)
(* Token issuance and validation of the AI Image Explorer microservices:   *)
(* the auth service (register, login, the ValidateToken RPC), the          *)
(* service-local authenticator (get_current_user) and the admin service's  *)
(* user mutations, over one relational store (table users) and one Redis   *)
(* cache.  Time is counted in seconds.                                      *)
(***************************************************************************)
EXTENDS Integers, Sequences, FiniteSets, TLC

VARIABLES
    users,      \* the rows of table users
    nextId,     \* the next value of the serial primary key users.id
    cache,      \* the Redis keys that are alive, each with its expiry time
    now,        \* the true time (POSIX seconds since the start of the run)
    tz,         \* the UTC offset of the auth server's local zone, in seconds
    rpc,        \* the ValidateToken response in flight to get_current_user
    resp,       \* the last request and its response
    registered, \* history: the identities as POST /register created them,
                \* while no admin request has changed or deleted them
    checked,    \* the register requests of other worker processes that have
                \* passed the duplicate checks and not yet inserted their row
    issued,     \* history: which identity (id) each token was minted for,
                \* kept in the specifications whose Init switches it on
    history,    \* the rows of table history
    nextHistoryId, \* the next value of the serial primary key history.id
    running     \* the request a service is running statement by statement:
                \* the store and cache calls it has made and those to come

vars == <<users, nextId, cache, now, tz, rpc, resp, registered, checked, issued,
          history, nextHistoryId, running>>

-----------------------------------------------------------------------------
(* Bounds of the model *)

MaxUsers == 2
MaxTime == 2400
TickSeconds == 1200
MaxInflight == 2
MaxHistory == 2

Names == {"alice", "bob"}
Passwords == {"pw1", "pw2"}
Roles == {"user", "admin"}
TzOffsets == {-3600, 0, 19800}

-----------------------------------------------------------------------------
(* Program constants *)

expires_delta_minutes == 30
CACHE_TTL == 3600

None == "<None>"
NoExp == -1

NoId == -1
Ids == 1..MaxUsers
RoleInputs == Roles

-----------------------------------------------------------------------------
(* Tokens: what jose's jwt.encode produces and jwt.decode accepts.  A token *)
(* is the string handed around; the model keeps its segments apart: kind    *)
(* "garbage" is a string that is no JWT, sig tells whether the signature    *)
(* was made with SECRET_KEY, the other fields are the claims (None/NoExp/   *)
(* NoId for a claim that is absent).                                        *)

NoToken == [kind |-> "none", sig |-> "", sub |-> None, role |-> None, id |-> NoId, exp |-> NoExp]
NotAJwt == [kind |-> "garbage", sig |-> "", sub |-> None, role |-> None, id |-> NoId, exp |-> NoExp]

jwt_encode(claims) ==
    [kind |-> "jwt", sig |-> "good", sub |-> claims.sub, role |-> claims.role,
     id |-> claims.id, exp |-> claims.exp]

ERR_SEGMENTS == "Not enough segments"
ERR_SIGNATURE == "Signature verification failed."
ERR_EXPIRED == "Signature has expired."

\* jwt.decode with the exp claim left unverified
jwt_decode_no_expiry(token, t) ==
    IF token.kind # "jwt" THEN [ok |-> FALSE, raised |-> "JWTError", error |-> ERR_SEGMENTS]
    ELSE IF token.sig # "good" THEN [ok |-> FALSE, raised |-> "JWTError", error |-> ERR_SIGNATURE]
    ELSE [ok |-> TRUE, raised |-> "", error |-> ""]

\* jwt.decode letting the parser's own exception escape for a string that is
\* no JWT
jwt_decode_value_error(token, t) ==
    IF token.kind # "jwt" THEN [ok |-> FALSE, raised |-> "ValueError", error |-> ERR_SEGMENTS]
    ELSE IF token.sig # "good" THEN [ok |-> FALSE, raised |-> "JWTError", error |-> ERR_SIGNATURE]
    ELSE IF token.exp # NoExp /\ token.exp < t
    THEN [ok |-> FALSE, raised |-> "ExpiredSignatureError", error |-> ERR_EXPIRED]
    ELSE [ok |-> TRUE, raised |-> "", error |-> ""]

\* jwt.decode(token, SECRET_KEY, algorithms=[ALGORITHM]) at time t: the
\* payload, or the JWTError it raises.  The signature is verified first, then
\* the exp claim, which passes as long as exp >= t.
jwt_decode(token, t) ==
    IF token.kind # "jwt" THEN [ok |-> FALSE, raised |-> "JWTError", error |-> ERR_SEGMENTS]
    ELSE IF token.sig # "good" THEN [ok |-> FALSE, raised |-> "JWTError", error |-> ERR_SIGNATURE]
    ELSE IF token.exp # NoExp /\ token.exp < t
    THEN [ok |-> FALSE, raised |-> "ExpiredSignatureError", error |-> ERR_EXPIRED]
    ELSE [ok |-> TRUE, raised |-> "", error |-> ""]

\* the exception classes `except JWTError` catches
JWTErrors == {"JWTError", "ExpiredSignatureError", "JWTClaimsError"}

\* create_access_token that leaves data's role out and claims the default
create_access_token_default_role(data, t) ==
    jwt_encode([sub |-> data.sub, role |-> "user", id |-> NoId,
                exp |-> t + expires_delta_minutes * 60])

\* create_access_token(data): exp is the POSIX timestamp of the aware
\* datetime now(Asia/Kolkata) + 30 minutes, i.e. the true time + 1800 s.
create_access_token(data, t) ==
    jwt_encode([sub |-> data.sub, role |-> data.role, id |-> NoId,
                exp |-> t + expires_delta_minutes * 60])

\* int(datetime.utcnow().timestamp()): the naive UTC wall clock read as a
\* local time of the server's zone.
utcnow_timestamp(t, offset) == t - offset

\* a verify that accepts every password
pwd_verify_any(password, hashed) == TRUE

\* pwd_context.hash / pwd_context.verify (bcrypt)
pwd_hash(password) == [scheme |-> "bcrypt", of |-> password]
pwd_verify(password, hashed) == hashed = pwd_hash(password)

-----------------------------------------------------------------------------
(* The Redis cache: a set of live entries, at most one per key. *)

TokenKey(username) == <<"token", username>>
UserKey(name_or_id) == <<"user", name_or_id>>
IdStr(id) == ToString(id)

ExistsValue == [tag |-> "exists", token |-> NoToken]
TokenValue(token) == [tag |-> "token", token |-> token]

\* a cache whose reads all miss
redis_has_never(c, key) == FALSE

redis_has(c, key) == \E e \in c : e.key = key
redis_get(c, key) == (CHOOSE e \in c : e.key = key).val
redis_delete(c, key) == {e \in c : e.key # key}
redis_setex(c, key, ttl, val, t) ==
    redis_delete(c, key) \cup {[key |-> key, val |-> val, expires |-> t + ttl]}
\* what Redis keeps once the clock shows t
redis_expire(c, t) == {e \in c : t < e.expires}

-----------------------------------------------------------------------------
(* The store: table users *)

UserRow(id, username, password, role) ==
    [id |-> id, username |-> username, hashed_password |-> pwd_hash(password), role |-> role]

HasUsername(db, username) == \E u \in db : u.username = username
ByUsername(db, username) == CHOOSE u \in db : u.username = username
HasId(db, id) == \E u \in db : u.id = id
ById(db, id) == CHOOSE u \in db : u.id = id

-----------------------------------------------------------------------------
(* Requests and responses *)

\* op: the operation; req: the username (register, login) or the token
\* (ValidateToken, get_current_user) of the request; status: the HTTP status,
\* for the RPC the gRPC status; detail: the error text; token: the
\* access_token returned; body: the identity returned (UserResponse, or the
\* RPC's valid/username/role)
NoBody == [valid |-> FALSE, id |-> NoId, username |-> "", role |-> ""]
NoReq == ""
GRPC_OK == 0
GRPC_UNKNOWN == 2

HTTP_401_UNAUTHORIZED == 401
HTTP_500_INTERNAL_SERVER_ERROR == 500

Response(op, req, status, detail, token, body) ==
    [op |-> op, req |-> req, status |-> status, detail |-> detail,
     token |-> token, body |-> body]

\* the ValidateToken response get_current_user is holding between its RPC
\* and its query of the local store
NoRpc == [pending |-> FALSE, username |-> ""]

\* no request is being run statement by statement
NoRequest == [op |-> "", todo |-> <<>>, done |-> <<>>]

\* the history of minted tokens: off, or the set of (token, id) pairs
NoLedger == [on |-> FALSE, pairs |-> {}]
EmptyLedger == [on |-> TRUE, pairs |-> {}]
Minted(ledger, token, id) ==
    IF ledger.on
    THEN [ledger EXCEPT !.pairs = @ \cup {[token |-> token, id |-> id]}]
    ELSE ledger

-----------------------------------------------------------------------------
(* auth_service: POST /register *)

\* register without its query of the store
register_db_user_skipped(db, username) == FALSE

\* lines 58-59: db.query(User).filter(User.username == user.username).first()
register_db_user(db, username) == HasUsername(db, username)

register(username, password, role) ==
    IF redis_has(cache, UserKey(username))
    THEN /\ resp' = Response("register", username, 400, "Username already exists (cached)", NoToken, NoBody)
         /\ UNCHANGED <<users, registered, nextId, cache, now, tz, checked, rpc, issued, history, nextHistoryId, running>>
    ELSE IF register_db_user(users, username)
    THEN /\ cache' = redis_setex(cache, UserKey(username), CACHE_TTL, ExistsValue, now)
         /\ resp' = Response("register", username, 400, "Username already exists", NoToken, NoBody)
         /\ UNCHANGED <<users, registered, nextId, now, tz, checked, rpc, issued, history, nextHistoryId, running>>
    ELSE /\ nextId <= MaxUsers
         /\ users' = users \cup {UserRow(nextId, username, password, role)}
         /\ nextId' = nextId + 1
         /\ registered' = registered \cup
                {[id |-> nextId, username |-> username, password |-> password, role |-> role]}
         /\ LET token == create_access_token([sub |-> username, role |-> role], now) IN
              /\ cache' = redis_setex(cache, TokenKey(username), CACHE_TTL, TokenValue(token), now)
              /\ resp' = Response("register", username, 200, "", token, NoBody)
              /\ issued' = Minted(issued, token, nextId)
         /\ UNCHANGED <<now, tz, checked, rpc, history, nextHistoryId, running>>

\* register in one of several worker processes of the auth service, where
\* the requests of the other workers run between its statements.
\* lines 52-61: the duplicate checks
register_check(username, password, role) ==
    IF redis_has(cache, UserKey(username)) \/ register_db_user(users, username)
    THEN register(username, password, role)
    ELSE /\ Cardinality(checked) < MaxInflight
         /\ checked' = checked \cup
                {[username |-> username, password |-> password, role |-> role]}
         /\ resp' = Response("register_check", username, 0, "", NoToken, NoBody)
         /\ UNCHANGED <<users, registered, nextId, cache, now, tz, rpc, issued, history, nextHistoryId, running>>

\* lines 63-73: the insert, then the token.  users.username is unique: when a
\* row with the username was committed since the checks, db.commit() raises
\* IntegrityError, which register does not catch
register_commit(request) ==
    /\ request \in checked
    /\ checked' = checked \ {request}
    /\ IF HasUsername(users, request.username)
       THEN /\ resp' = Response("register", request.username, HTTP_500_INTERNAL_SERVER_ERROR,
                                "Internal Server Error", NoToken, NoBody)
            /\ UNCHANGED <<users, registered, nextId, cache, now, tz, rpc, issued, history, nextHistoryId, running>>
       ELSE /\ nextId <= MaxUsers
            /\ users' = users \cup
                  {UserRow(nextId, request.username, request.password, request.role)}
            /\ nextId' = nextId + 1
            /\ registered' = registered \cup
                  {[id |-> nextId, username |-> request.username,
                    password |-> request.password, role |-> request.role]}
            /\ LET token == create_access_token(
                                [sub |-> request.username, role |-> request.role], now) IN
                 /\ cache' = redis_setex(cache, TokenKey(request.username), CACHE_TTL,
                                         TokenValue(token), now)
                 /\ resp' = Response("register", request.username, 200, "", token, NoBody)
                 /\ issued' = Minted(issued, token, nextId)
            /\ UNCHANGED <<now, tz, rpc, history, nextHistoryId, running>>

-----------------------------------------------------------------------------
(* auth_service: POST /login *)

\* lines 79-89: the cached token is returned when it decodes and its exp lies
\* after the timestamp login computes
login_cached(username) ==
    /\ redis_has(cache, TokenKey(username))
    /\ LET cached_token == redis_get(cache, TokenKey(username)).token IN
         /\ jwt_decode(cached_token, now).ok
         /\ cached_token.exp # NoExp
         /\ cached_token.exp > utcnow_timestamp(now, tz)

\* line 85: a cached token that decodes and has no exp claim
login_missing_exp(username) ==
    /\ redis_has(cache, TokenKey(username))
    /\ LET cached_token == redis_get(cache, TokenKey(username)).token IN
         /\ jwt_decode(cached_token, now).ok
         /\ cached_token.exp = NoExp

login(username, password) ==
    IF login_missing_exp(username)
    THEN /\ resp' = Response("login", username, 401, "Token missing expiration", NoToken, NoBody)
         /\ UNCHANGED <<users, registered, nextId, cache, now, tz, checked, rpc, issued, history, nextHistoryId, running>>
    ELSE IF login_cached(username)
    THEN /\ resp' = Response("login", username, 200, "", redis_get(cache, TokenKey(username)).token, NoBody)
         /\ UNCHANGED <<users, registered, nextId, cache, now, tz, checked, rpc, issued, history, nextHistoryId, running>>
    ELSE IF \/ ~HasUsername(users, username)
            \/ ~pwd_verify(password, ByUsername(users, username).hashed_password)
    THEN /\ resp' = Response("login", username, 401, "Invalid credentials", NoToken, NoBody)
         /\ UNCHANGED <<users, registered, nextId, cache, now, tz, checked, rpc, issued, history, nextHistoryId, running>>
    ELSE LET user == ByUsername(users, username)
             token == create_access_token([sub |-> user.username, role |-> user.role], now) IN
         /\ cache' = redis_setex(cache, TokenKey(username), CACHE_TTL, TokenValue(token), now)
         /\ resp' = Response("login", username, 200, "", token, NoBody)
         /\ issued' = Minted(issued, token, user.id)
         /\ UNCHANGED <<users, registered, nextId, now, tz, checked, rpc, history, nextHistoryId, running>>

-----------------------------------------------------------------------------
(* auth_service gRPC: AuthServicer.ValidateToken *)

\* a validator that answers with the role claim of the token
ValidateTokenResponse_role_claim(token, db, t) ==
    LET payload == jwt_decode(token, t) IN
    IF ~payload.ok
    THEN [status |-> GRPC_OK, valid |-> FALSE, username |-> "", role |-> "", error |-> payload.error]
    ELSE IF token.sub = None \/ token.sub = ""
    THEN [status |-> GRPC_OK, valid |-> FALSE, username |-> "", role |-> "",
          error |-> "Invalid token payload"]
    ELSE IF ~HasUsername(db, token.sub)
    THEN [status |-> GRPC_OK, valid |-> FALSE, username |-> "", role |-> "",
          error |-> "User not found"]
    ELSE [status |-> GRPC_OK, valid |-> TRUE, username |-> token.sub, role |-> token.role,
          error |-> ""]

\* a validator that looks at the sub claim before it verifies the token
ValidateTokenResponse_sub_first(token, db, t) ==
    LET payload == jwt_decode(token, t) IN
    IF token.kind = "jwt" /\ (token.sub = None \/ token.sub = "")
    THEN [status |-> GRPC_OK, valid |-> FALSE, username |-> "", role |-> "",
          error |-> "Invalid token payload"]
    ELSE IF ~payload.ok
    THEN [status |-> GRPC_OK, valid |-> FALSE, username |-> "", role |-> "", error |-> payload.error]
    ELSE IF ~HasUsername(db, token.sub)
    THEN [status |-> GRPC_OK, valid |-> FALSE, username |-> "", role |-> "",
          error |-> "User not found"]
    ELSE LET user == ByUsername(db, token.sub) IN
         [status |-> GRPC_OK, valid |-> TRUE, username |-> user.username, role |-> user.role,
          error |-> ""]

\* the ValidateTokenResponse for request.token, read against store db at time t
ValidateTokenResponse(token, db, t) ==
    LET payload == jwt_decode(token, t) IN
    IF ~payload.ok /\ payload.raised \notin JWTErrors
    THEN [status |-> GRPC_UNKNOWN, valid |-> FALSE, username |-> "", role |-> "", error |-> ""]
    ELSE IF ~payload.ok
    THEN [status |-> GRPC_OK, valid |-> FALSE, username |-> "", role |-> "", error |-> payload.error]
    ELSE IF token.sub = None \/ token.sub = ""
    THEN [status |-> GRPC_OK, valid |-> FALSE, username |-> "", role |-> "",
          error |-> "Invalid token payload"]
    ELSE IF ~HasUsername(db, token.sub)
    THEN [status |-> GRPC_OK, valid |-> FALSE, username |-> "", role |-> "",
          error |-> "User not found"]
    ELSE LET user == ByUsername(db, token.sub) IN
         [status |-> GRPC_OK, valid |-> TRUE, username |-> user.username, role |-> user.role,
          error |-> ""]

\* tokens a caller can present besides those it was issued: no JWT at all, and
\* JWTs with or without a good signature, a sub claim, a known sub, an exp
Probe(sig, sub, exp) ==
    [kind |-> "jwt", sig |-> sig, sub |-> sub, role |-> "user", id |-> NoId, exp |-> exp]

ProbeTokens ==
    {NotAJwt,
     Probe("bad", "mallory", NoExp), Probe("bad", None, NoExp),
     Probe("good", None, NoExp), Probe("good", "", NoExp), Probe("good", "mallory", NoExp),
     Probe("good", None, 0)}

\* the tokens the auth service issued that the model lets a caller present:
\* the latest issued per username, which is the one Redis holds under
\* token:<username> until its TTL runs out (no handler deletes that key)
IssuedTokens == {e.val.token : e \in {x \in cache : x.val.tag = "token"}}

\* a ValidateToken that keeps its verdict in Redis
ValidateToken_caching(token) ==
    LET response == ValidateTokenResponse(token, users, now) IN
    /\ resp' = Response("ValidateToken", token, response.status, response.error, NoToken,
                        [valid |-> response.valid, id |-> NoId,
                         username |-> response.username, role |-> response.role])
    /\ cache' = redis_setex(cache, <<"verdict", response.username>>, CACHE_TTL,
                            [tag |-> "verdict", token |-> token], now)
    /\ UNCHANGED <<users, registered, nextId, now, tz, checked, rpc, issued, history, nextHistoryId, running>>

\* one RPC from any service
ValidateToken(token) ==
    LET response == ValidateTokenResponse(token, users, now) IN
    /\ resp' = Response("ValidateToken", token, response.status, response.error, NoToken,
                        [valid |-> response.valid, id |-> NoId,
                         username |-> response.username, role |-> response.role])
    /\ UNCHANGED <<users, registered, nextId, cache, now, tz, checked, rpc, issued, history, nextHistoryId, running>>

-----------------------------------------------------------------------------
(* Service-local authenticator: get_current_user of auth_service (GET        *)
(* /validate) and of admin_service.  It runs in two steps, the RPC and the   *)
(* query of the local store; other requests run in between.                  *)

\* lines 28-32: the RPC and the test of response.valid
get_current_user_rpc(token) ==
    LET response == ValidateTokenResponse(token, users, now) IN
    /\ ~rpc.pending
    /\ IF response.status # GRPC_OK
       THEN /\ resp' = Response("get_current_user", token, 401, "gRPC error: UNKNOWN",
                                NoToken, NoBody)
            /\ rpc' = rpc
       ELSE IF ~response.valid
       THEN /\ resp' = Response("get_current_user", token, 401,
                                "Invalid token: " \o response.error, NoToken, NoBody)
            /\ rpc' = rpc
       ELSE /\ resp' = Response("get_current_user_rpc", token, 0, "", NoToken, NoBody)
            /\ rpc' = [pending |-> TRUE, username |-> response.username]
    /\ UNCHANGED <<users, registered, nextId, cache, now, tz, checked, issued, history, nextHistoryId, running>>

\* a get_current_user that trusts the verdict and skips the test of the
\* store query's result
get_current_user_lookup_trusting ==
    /\ rpc.pending
    /\ rpc' = NoRpc
    /\ resp' = Response("get_current_user", NoToken, 200, "", NoToken,
                        [valid |-> TRUE, id |-> NoId, username |-> rpc.username, role |-> ""])
    /\ UNCHANGED <<users, registered, nextId, cache, now, tz, checked, issued, history, nextHistoryId, running>>

\* lines 36-37: stub.ValidateToken raises grpc.RpcError (the validator is
\* unreachable)
get_current_user_unavailable(token) ==
    /\ ~rpc.pending
    /\ resp' = Response("get_current_user", token, HTTP_401_UNAUTHORIZED,
                        "gRPC error: UNAVAILABLE", NoToken, NoBody)
    /\ UNCHANGED <<users, registered, nextId, cache, now, tz, checked, rpc, issued, history, nextHistoryId, running>>

\* lines 34-37: the query of the local store by response.username
get_current_user_lookup ==
    /\ rpc.pending
    /\ rpc' = NoRpc
    /\ IF ~HasUsername(users, rpc.username)
       THEN resp' = Response("get_current_user", NoToken, 401, "User not found", NoToken, NoBody)
       ELSE LET user == ByUsername(users, rpc.username) IN
            resp' = Response("get_current_user", NoToken, 200, "", NoToken,
                             [valid |-> TRUE, id |-> user.id,
                              username |-> user.username, role |-> user.role])
    /\ UNCHANGED <<users, registered, nextId, cache, now, tz, checked, issued, history, nextHistoryId, running>>

\* The RPC taken apart: stub.ValidateToken(...) sends the request and blocks
\* until the validator answers or the channel reports an error.  The call
\* passes no timeout, so the stub sets no deadline.  sent counts the
\* ValidateToken requests the call has put on the channel.
Calling(token) == [pending |-> FALSE, username |-> "", call |-> token, sent |-> 1]
InFlight == "call" \in DOMAIN rpc

\* line 26: the request is sent
get_current_user_call(token) ==
    /\ rpc = NoRpc
    /\ rpc' = Calling(token)
    /\ resp' = Response("get_current_user_call", token, 0, "", NoToken, NoBody)
    /\ UNCHANGED <<users, registered, nextId, cache, now, tz, checked, issued, history, nextHistoryId, running>>

\* a get_current_user that sends ValidateToken again when the verdict is a
\* rejection
get_current_user_answer_retrying ==
    /\ InFlight
    /\ LET response == ValidateTokenResponse(rpc.call, users, now) IN
       IF response.status # GRPC_OK \/ ~response.valid
       THEN /\ resp' = Response("get_current_user_call", rpc.call, 0, "", NoToken, NoBody)
            /\ rpc' = [Calling(rpc.call) EXCEPT !.sent = IF rpc.sent < 2 THEN rpc.sent + 1 ELSE 2]
       ELSE /\ resp' = Response("get_current_user_rpc", rpc.call, 0, "", NoToken, NoBody)
            /\ rpc' = [pending |-> TRUE, username |-> response.username]
    /\ UNCHANGED <<users, registered, nextId, cache, now, tz, checked, issued, history, nextHistoryId, running>>

\* lines 26-29: the validator's answer arrives
get_current_user_answer ==
    /\ InFlight
    /\ LET response == ValidateTokenResponse(rpc.call, users, now) IN
       IF response.status # GRPC_OK
       THEN /\ resp' = Response("get_current_user", rpc.call, 401, "gRPC error: UNKNOWN",
                                NoToken, NoBody)
            /\ rpc' = NoRpc
       ELSE IF ~response.valid
       THEN /\ resp' = Response("get_current_user", rpc.call, 401,
                                "Invalid token: " \o response.error, NoToken, NoBody)
            /\ rpc' = NoRpc
       ELSE /\ resp' = Response("get_current_user_rpc", rpc.call, 0, "", NoToken, NoBody)
            /\ rpc' = [pending |-> TRUE, username |-> response.username]
    /\ UNCHANGED <<users, registered, nextId, cache, now, tz, checked, issued, history, nextHistoryId, running>>

\* lines 36-37: the channel reports an error (connection refused or reset)
get_current_user_rpc_error ==
    /\ InFlight
    /\ rpc' = NoRpc
    /\ resp' = Response("get_current_user", rpc.call, HTTP_401_UNAUTHORIZED,
                        "gRPC error: UNAVAILABLE", NoToken, NoBody)
    /\ UNCHANGED <<users, registered, nextId, cache, now, tz, checked, issued, history, nextHistoryId, running>>

-----------------------------------------------------------------------------
(* api_gateway *)

\* payload.get("id", 0)
DefaultId == 0

\* get_current_user of the gateway: the token is decoded locally with the
\* shared secret
gateway_get_current_user(token, t) ==
    LET payload == jwt_decode(token, t) IN
    IF ~payload.ok /\ payload.raised \notin JWTErrors
    THEN [ok |-> FALSE, status |-> HTTP_500_INTERNAL_SERVER_ERROR,
          detail |-> "Internal Server Error", id |-> NoId, username |-> "", role |-> ""]
    ELSE IF ~payload.ok
    THEN [ok |-> FALSE, status |-> HTTP_401_UNAUTHORIZED, detail |-> "Invalid or expired token",
          id |-> NoId, username |-> "", role |-> ""]
    ELSE IF token.sub = None \/ token.role = None
    THEN [ok |-> FALSE, status |-> HTTP_401_UNAUTHORIZED, detail |-> "Invalid token payload",
          id |-> NoId, username |-> "", role |-> ""]
    ELSE [ok |-> TRUE, status |-> 200, detail |-> "",
          id |-> IF token.id = NoId THEN DefaultId ELSE token.id,
          username |-> token.sub, role |-> token.role]

\* jwt.encode({'sub': user.username, 'role': user.role, 'id': user.id}, ...):
\* the token the gateway attaches to the downstream call
gateway_token(user) ==
    jwt_encode([sub |-> user.username, role |-> user.role, id |-> user.id, exp |-> NoExp])

\* what a downstream call comes back with: an HTTP response (status, body
\* text, the body as JSON if it parses), or an exception of the HTTP client
Downstream(kind, status, text, parses, json) ==
    [kind |-> kind, status |-> status, text |-> text, parses |-> parses, json |-> json]

\* a forward_request that answers every failed call alike
forward_request_flat(downstream) ==
    IF downstream.kind = "response" /\ downstream.status \in 200..299 /\ downstream.parses
    THEN [status |-> 200, detail |-> "", body |-> downstream.json]
    ELSE [status |-> HTTP_500_INTERNAL_SERVER_ERROR,
          detail |-> "Internal server error", body |-> NoBody]

\* forward_request, from the outcome of the client call on
forward_request(downstream) ==
    IF downstream.kind # "response"
    THEN [status |-> HTTP_500_INTERNAL_SERVER_ERROR,
          detail |-> "Internal server error: " \o downstream.kind, body |-> NoBody]
    ELSE IF downstream.status \notin 200..299
    THEN [status |-> downstream.status, detail |-> downstream.text, body |-> NoBody]
    ELSE IF ~downstream.parses
    THEN [status |-> HTTP_500_INTERNAL_SERVER_ERROR,
          detail |-> "Internal server error: JSONDecodeError", body |-> NoBody]
    ELSE [status |-> 200, detail |-> "", body |-> downstream.json]

\* GET /validate of the auth service as the gateway's client sees it:
\* get_current_user (the RPC and the store query), then the row as JSON
auth_validate(token) ==
    LET response == ValidateTokenResponse(token, users, now) IN
    IF response.status # GRPC_OK
    THEN Downstream("response", HTTP_401_UNAUTHORIZED, "gRPC error: UNKNOWN", TRUE, NoBody)
    ELSE IF ~response.valid
    THEN Downstream("response", HTTP_401_UNAUTHORIZED, "Invalid token: " \o response.error,
                    TRUE, NoBody)
    ELSE IF ~HasUsername(users, response.username)
    THEN Downstream("response", HTTP_401_UNAUTHORIZED, "User not found", TRUE, NoBody)
    ELSE LET user == ByUsername(users, response.username) IN
         Downstream("response", 200, "", TRUE,
                    [valid |-> TRUE, id |-> user.id, username |-> user.username,
                     role |-> user.role])

\* the client exceptions that are no HTTPStatusError
ClientErrors == {"ConnectError", "ReadTimeout"}

\* GET /auth/validate; net: "ok", or the exception the client call raises
gateway_validate(token, net) ==
    LET user == gateway_get_current_user(token, now) IN
    /\ IF ~user.ok
       THEN resp' = Response("gateway_validate", token, user.status, user.detail, NoToken, NoBody)
       ELSE LET headers == gateway_token(user)
                downstream == IF net = "ok" THEN auth_validate(headers)
                              ELSE Downstream(net, 0, "", FALSE, NoBody)
                out == forward_request(downstream) IN
            resp' = Response("gateway_validate", token, out.status, out.detail, headers, out.body)
    /\ UNCHANGED <<users, registered, nextId, cache, now, tz, checked, rpc, issued, history, nextHistoryId, running>>

\* the answers of the dashboard, image and search services to the gateway
Downstreams ==
    {Downstream("response", 200, "{}", TRUE, NoBody),
     Downstream("response", 200, "<html>", FALSE, NoBody),
     Downstream("response", 401, "{\"detail\":\"Invalid token\"}", TRUE, NoBody),
     Downstream("response", 404, "{\"detail\":\"Not found\"}", TRUE, NoBody),
     Downstream("response", 500, "Internal Server Error", FALSE, NoBody),
     Downstream("ConnectError", 0, "", FALSE, NoBody),
     Downstream("ReadTimeout", 0, "", FALSE, NoBody)}

\* GET /dashboard, PUT and DELETE /dashboard/{id}, POST /image/generate,
\* POST /search/query: the downstream service answers with downstream
gateway_forward(token, downstream) ==
    LET user == gateway_get_current_user(token, now) IN
    /\ IF ~user.ok
       THEN resp' = Response("gateway_forward", token, user.status, user.detail, NoToken, NoBody)
       ELSE LET headers == gateway_token(user)
                out == forward_request(downstream) IN
            resp' = Response("gateway_forward", token, out.status, out.detail, headers, out.body)
    /\ UNCHANGED <<users, registered, nextId, cache, now, tz, checked, rpc, issued, history, nextHistoryId, running>>

\* bearer tokens signed with the shared secret, as a caller of the gateway can
\* hold them: with and without the claims sub, role, id and exp
GatewayProbe(sub, role, id, exp) ==
    [kind |-> "jwt", sig |-> "good", sub |-> sub, role |-> role, id |-> id, exp |-> exp]

GatewayProbeTokens ==
    {NotAJwt,
     Probe("bad", "alice", NoExp),
     GatewayProbe(None, "user", 1, MaxTime),
     GatewayProbe("alice", None, 1, MaxTime),
     GatewayProbe("alice", "user", NoId, MaxTime),
     GatewayProbe("alice", "user", 1, MaxTime),
     GatewayProbe("alice", "user", 1, 0)}

-----------------------------------------------------------------------------
(* admin_service *)

\* a get_admin_user that tests the role claim of the token
get_admin_user_role_claim(token) ==
    LET response == ValidateTokenResponse(token, users, now) IN
    IF ~response.valid
    THEN [ok |-> FALSE, status |-> 401, detail |-> "Invalid token: " \o response.error, id |-> NoId]
    ELSE IF token.role # "admin"
    THEN [ok |-> FALSE, status |-> 403, detail |-> "Admin access required", id |-> NoId]
    ELSE [ok |-> TRUE, status |-> 200, detail |-> "", id |-> ByUsername(users, response.username).id]

\* get_admin_user: get_current_user, then the role test.  The admin handlers
\* below run it together with their body.
get_admin_user(token) ==
    LET response == ValidateTokenResponse(token, users, now) IN
    IF response.status # GRPC_OK
    THEN [ok |-> FALSE, status |-> 401, detail |-> "gRPC error: UNKNOWN", id |-> NoId]
    ELSE IF ~response.valid
    THEN [ok |-> FALSE, status |-> 401, detail |-> "Invalid token: " \o response.error, id |-> NoId]
    ELSE IF ~HasUsername(users, response.username)
    THEN [ok |-> FALSE, status |-> 401, detail |-> "User not found", id |-> NoId]
    ELSE IF ByUsername(users, response.username).role # "admin"
    THEN [ok |-> FALSE, status |-> 403, detail |-> "Admin access required", id |-> NoId]
    ELSE [ok |-> TRUE, status |-> 200, detail |-> "", id |-> ByUsername(users, response.username).id]

\* json.dumps(user.__dict__) of an ORM row: __dict__ holds _sa_instance_state,
\* which json cannot serialise, so the call raises TypeError
json_dumps_row(user) == [ok |-> FALSE, text |-> ""]

Rejected(op, auth) ==
    /\ resp' = Response(op, NoReq, auth.status, auth.detail, NoToken, NoBody)
    /\ UNCHANGED <<users, registered, nextId, cache, now, tz, checked, rpc, issued, history, nextHistoryId, running>>

Absent == "<absent>"

\* PUT /users/{user_id}/role
change_user_role(token, user_id, new_role) ==
    LET admin_user == get_admin_user(token) IN
    IF ~admin_user.ok THEN Rejected("change_user_role", admin_user)
    ELSE IF new_role = Absent \/ new_role \notin {"user", "admin"}
    THEN /\ resp' = Response("change_user_role", NoReq, 400, "Invalid role. Must be 'user' or 'admin'", NoToken, NoBody)
         /\ UNCHANGED <<users, registered, nextId, cache, now, tz, checked, rpc, issued, history, nextHistoryId, running>>
    ELSE IF ~HasId(users, user_id)
    THEN /\ resp' = Response("change_user_role", NoReq, 404, "User not found", NoToken, NoBody)
         /\ UNCHANGED <<users, registered, nextId, cache, now, tz, checked, rpc, issued, history, nextHistoryId, running>>
    ELSE IF user_id = admin_user.id
    THEN /\ resp' = Response("change_user_role", NoReq, 400, "Cannot change your own role", NoToken, NoBody)
         /\ UNCHANGED <<users, registered, nextId, cache, now, tz, checked, rpc, issued, history, nextHistoryId, running>>
    ELSE LET user == [ById(users, user_id) EXCEPT !.role = new_role]
             dumped == json_dumps_row(user) IN
         /\ users' = (users \ {ById(users, user_id)}) \cup {user}
         /\ registered' = {g \in registered : g.id # user_id}
         /\ IF dumped.ok
            THEN /\ cache' = redis_delete(
                        redis_setex(cache, UserKey(IdStr(user_id)), CACHE_TTL,
                                    [tag |-> "json", token |-> NoToken], now),
                        <<"admin:users:*">>)
                 /\ resp' = Response("change_user_role", NoReq, 200, "", NoToken, NoBody)
            ELSE /\ cache' = cache
                 /\ resp' = Response("change_user_role", NoReq, 500, "Internal Server Error", NoToken, NoBody)
         /\ UNCHANGED <<nextId, now, tz, checked, rpc, issued, history, nextHistoryId, running>>

\* PUT /users/{user_id}; update_data is the request's dict, a key that is
\* not in it being Absent
update_user(token, user_id, update_data) ==
    LET admin_user == get_admin_user(token) IN
    IF ~admin_user.ok THEN Rejected("update_user", admin_user)
    ELSE IF ~HasId(users, user_id)
    THEN /\ resp' = Response("update_user", NoReq, 404, "User not found", NoToken, NoBody)
         /\ UNCHANGED <<users, registered, nextId, cache, now, tz, checked, rpc, issued, history, nextHistoryId, running>>
    ELSE IF /\ update_data.username # Absent
            /\ \E u \in users : u.username = update_data.username /\ u.id # user_id
    THEN /\ resp' = Response("update_user", NoReq, 400, "Username already exists", NoToken, NoBody)
         /\ UNCHANGED <<users, registered, nextId, cache, now, tz, checked, rpc, issued, history, nextHistoryId, running>>
    ELSE IF update_data.role # Absent /\ update_data.role \notin {"user", "admin"}
    THEN /\ resp' = Response("update_user", NoReq, 400, "Invalid role", NoToken, NoBody)
         /\ UNCHANGED <<users, registered, nextId, cache, now, tz, checked, rpc, issued, history, nextHistoryId, running>>
    ELSE LET old == ById(users, user_id)
             user == [id |-> old.id,
                      username |-> IF update_data.username # Absent
                                   THEN update_data.username ELSE old.username,
                      hashed_password |-> IF update_data.password # Absent
                                          THEN pwd_hash(update_data.password)
                                          ELSE old.hashed_password,
                      role |-> IF update_data.role # Absent
                               THEN update_data.role ELSE old.role]
             dumped == json_dumps_row(user) IN
         /\ users' = (users \ {old}) \cup {user}
         /\ registered' = {g \in registered : g.id # user_id}
         /\ IF dumped.ok
            THEN /\ cache' = redis_delete(
                        redis_setex(cache, UserKey(IdStr(user_id)), CACHE_TTL,
                                    [tag |-> "json", token |-> NoToken], now),
                        <<"admin:users:*">>)
                 /\ resp' = Response("update_user", NoReq, 200, "", NoToken, NoBody)
            ELSE /\ cache' = cache
                 /\ resp' = Response("update_user", NoReq, 500, "Internal Server Error", NoToken, NoBody)
         /\ UNCHANGED <<nextId, now, tz, checked, rpc, issued, history, nextHistoryId, running>>

\* DELETE /users/{user_id}
delete_user(token, user_id) ==
    LET admin_user == get_admin_user(token) IN
    IF ~admin_user.ok THEN Rejected("delete_user", admin_user)
    ELSE IF ~HasId(users, user_id)
    THEN /\ resp' = Response("delete_user", NoReq, 404, "User not found", NoToken, NoBody)
         /\ UNCHANGED <<users, registered, nextId, cache, now, tz, checked, rpc, issued, history, nextHistoryId, running>>
    ELSE IF user_id = admin_user.id
    THEN /\ resp' = Response("delete_user", NoReq, 400, "Cannot delete your own account", NoToken, NoBody)
         /\ UNCHANGED <<users, registered, nextId, cache, now, tz, checked, rpc, issued, history, nextHistoryId, running>>
    ELSE LET user == ById(users, user_id) IN
         /\ history' = {h \in history : h.user_id # user_id}
         /\ users' = users \ {user}
         /\ registered' = {g \in registered : g.id # user_id}
         /\ cache' = redis_delete(redis_delete(redis_delete(cache,
                          UserKey(IdStr(user_id))), UserKey(user.username)), <<"admin:users:*">>)
         /\ resp' = Response("delete_user", NoReq, 200, "", NoToken, NoBody)
         /\ UNCHANGED <<nextId, now, tz, checked, rpc, issued, nextHistoryId, running>>

\* POST /users
create_user(token, username, password, role) ==
    LET admin_user == get_admin_user(token) IN
    IF ~admin_user.ok THEN Rejected("create_user", admin_user)
    ELSE IF redis_has(cache, UserKey(username))
    THEN /\ resp' = Response("create_user", NoReq, 400, "Username already exists (cached)", NoToken, NoBody)
         /\ UNCHANGED <<users, registered, nextId, cache, now, tz, checked, rpc, issued, history, nextHistoryId, running>>
    ELSE IF HasUsername(users, username)
    THEN LET dumped == json_dumps_row(ByUsername(users, username)) IN
         /\ IF dumped.ok
            THEN /\ cache' = redis_setex(cache, UserKey(username), CACHE_TTL,
                                         [tag |-> "json", token |-> NoToken], now)
                 /\ resp' = Response("create_user", NoReq, 400, "Username already exists", NoToken, NoBody)
            ELSE /\ cache' = cache
                 /\ resp' = Response("create_user", NoReq, 500, "Internal Server Error", NoToken, NoBody)
         /\ UNCHANGED <<users, registered, nextId, now, tz, checked, rpc, issued, history, nextHistoryId, running>>
    ELSE LET new_user == UserRow(nextId, username, password, role)
             dumped == json_dumps_row(new_user) IN
         /\ nextId <= MaxUsers
         /\ users' = users \cup {new_user}
         /\ registered' = registered
         /\ nextId' = nextId + 1
         /\ IF dumped.ok
            THEN /\ cache' = redis_delete(
                        redis_setex(cache, UserKey(IdStr(new_user.id)), CACHE_TTL,
                                    [tag |-> "json", token |-> NoToken], now),
                        <<"admin:users:*">>)
                 /\ resp' = Response("create_user", NoReq, 200, "", NoToken, NoBody)
            ELSE /\ cache' = cache
                 /\ resp' = Response("create_user", NoReq, 500, "Internal Server Error", NoToken, NoBody)
         /\ UNCHANGED <<now, tz, checked, rpc, issued, history, nextHistoryId, running>>

\* json.loads of a cached value: the marker "exists" that register stores
\* under user:<username> is no JSON text, and json.loads raises
json_loads(val) == [ok |-> val.tag # "exists"]

\* GET /users/{user_id}
get_user_by_id(token, user_id) ==
    LET admin_user == get_admin_user(token) IN
    IF ~admin_user.ok THEN Rejected("get_user_by_id", admin_user)
    ELSE /\ IF redis_has(cache, UserKey(IdStr(user_id)))
            THEN IF json_loads(redis_get(cache, UserKey(IdStr(user_id)))).ok
                 THEN resp' = Response("get_user_by_id", NoReq, 200, "", NoToken, NoBody)
                 ELSE resp' = Response("get_user_by_id", NoReq, 500, "Internal Server Error",
                                       NoToken, NoBody)
            ELSE IF ~HasId(users, user_id)
            THEN resp' = Response("get_user_by_id", NoReq, 404, "User not found", NoToken, NoBody)
            ELSE IF json_dumps_row(ById(users, user_id)).ok
            THEN FALSE
            ELSE resp' = Response("get_user_by_id", NoReq, 500, "Internal Server Error",
                                  NoToken, NoBody)
         /\ UNCHANGED <<users, registered, nextId, cache, now, tz, checked, rpc, issued, history, nextHistoryId, running>>

\* the role strings a request body can carry: UserCreate.role is a str
RoleValues == Roles \cup {"root"}

UpdateDatas ==
    [username : Names \cup {Absent}, role : Roles \cup {"root", Absent},
     password : Passwords \cup {Absent}]

\* update_data that names one key, or a new username together with a role
\* that is no role
OneKey(d) ==
    \/ Cardinality({k \in {"username", "role", "password"} : d[k] # Absent}) = 1
    \/ d.username # Absent /\ d.role = "root" /\ d.password = Absent

-----------------------------------------------------------------------------
(* Redis failing: the handlers as they run when Redis answers their reads    *)
(* and stops answering before their first write (redis.ConnectionError).     *)
(* No handler catches the exception; FastAPI answers 500.                    *)

\* register, lines 63-72: the row is committed, setex raises
register_redis_error(username, password, role) ==
    /\ ~redis_has(cache, UserKey(username))
    /\ ~register_db_user(users, username)
    /\ nextId <= MaxUsers
    /\ users' = users \cup {UserRow(nextId, username, password, role)}
    /\ nextId' = nextId + 1
    /\ registered' = registered \cup
           {[id |-> nextId, username |-> username, password |-> password, role |-> role]}
    /\ resp' = Response("register", username, HTTP_500_INTERNAL_SERVER_ERROR,
                        "Internal Server Error", NoToken, NoBody)
    /\ UNCHANGED <<cache, now, tz, checked, rpc, issued, history, nextHistoryId, running>>

\* login, lines 92-98: no usable cached token, the credentials verify, the
\* token is minted, setex raises
login_redis_error(username, password) ==
    /\ ~login_missing_exp(username)
    /\ ~login_cached(username)
    /\ HasUsername(users, username)
    /\ pwd_verify(password, ByUsername(users, username).hashed_password)
    /\ resp' = Response("login", username, HTTP_500_INTERNAL_SERVER_ERROR,
                        "Internal Server Error", NoToken, NoBody)
    /\ UNCHANGED <<users, registered, nextId, cache, now, tz, checked, rpc, issued, history, nextHistoryId, running>>

\* delete_user, lines 171-176: the delete is committed, the first
\* redis_client.delete raises
delete_user_redis_error(token, user_id) ==
    LET admin_user == get_admin_user(token) IN
    /\ admin_user.ok
    /\ HasId(users, user_id)
    /\ user_id # admin_user.id
    /\ history' = {h \in history : h.user_id # user_id}
    /\ users' = users \ {ById(users, user_id)}
    /\ registered' = {g \in registered : g.id # user_id}
    /\ resp' = Response("delete_user", NoReq, HTTP_500_INTERNAL_SERVER_ERROR,
                        "Internal Server Error", NoToken, NoBody)
    /\ UNCHANGED <<nextId, cache, now, tz, checked, rpc, issued, nextHistoryId, running>>

-----------------------------------------------------------------------------
(* admin_service: GET /users *)

\* json.dumps([user.__dict__ for user in users]): the empty list gives "[]",
\* a list with a row raises TypeError as json_dumps_row does
json_dumps_rows(rows) ==
    IF rows = {} THEN [ok |-> TRUE, text |-> "[]"] ELSE [ok |-> FALSE, text |-> ""]

\* the key admin:users:skip<skip>:limit<limit>:role<role_filter or 'all'>, for
\* the default skip = 0 and limit = 100
UsersListKey(role_filter) ==
    <<"admin:users", "skip0", "limit100", IF role_filter = None THEN "all" ELSE role_filter>>

ListValue(rows) == [tag |-> "list", token |-> NoToken, data |-> rows]

get_all_users(token, role_filter) ==
    LET admin_user == get_admin_user(token) IN
    IF ~admin_user.ok THEN Rejected("get_all_users", admin_user)
    ELSE IF redis_has(cache, UsersListKey(role_filter))
    THEN /\ resp' = Response("get_all_users", NoReq, 200, "", NoToken, NoBody)
         /\ UNCHANGED <<users, registered, nextId, cache, now, tz, checked, rpc, issued, history, nextHistoryId, running>>
    ELSE LET rows == {u \in users : role_filter = None \/ u.role = role_filter}
             dumped == json_dumps_rows(rows) IN
         /\ IF dumped.ok
            THEN /\ cache' = redis_setex(cache, UsersListKey(role_filter), CACHE_TTL,
                                         ListValue(rows), now)
                 /\ resp' = Response("get_all_users", NoReq, 200, "", NoToken, NoBody)
            ELSE /\ cache' = cache
                 /\ resp' = Response("get_all_users", NoReq, 500, "Internal Server Error",
                                     NoToken, NoBody)
         /\ UNCHANGED <<users, registered, nextId, now, tz, checked, rpc, issued, history, nextHistoryId, running>>

-----------------------------------------------------------------------------
(* dashboard_service, image_service and search_service, over table history. *)
(* A history row keeps id, user_id, type, query and result; created_at and   *)
(* meta_data are left out.  Of the filters of GET / the model has type;      *)
(* keyword, date_start and date_end are absent from every request.           *)

HistoryRow(id, user_id, type, query, result) ==
    [id |-> id, user_id |-> user_id, type |-> type, query |-> query, result |-> result]

\* get_current_user of the three services: the RPC, then the query of the
\* local store.  The handlers below run it together with their body.
service_get_current_user(token) ==
    LET response == ValidateTokenResponse(token, users, now) IN
    IF response.status # GRPC_OK
    THEN [ok |-> FALSE, status |-> 401, detail |-> "gRPC error: UNKNOWN", id |-> NoId, role |-> ""]
    ELSE IF ~response.valid
    THEN [ok |-> FALSE, status |-> 401, detail |-> "Invalid token: " \o response.error,
          id |-> NoId, role |-> ""]
    ELSE IF ~HasUsername(users, response.username)
    THEN [ok |-> FALSE, status |-> 401, detail |-> "User not found", id |-> NoId, role |-> ""]
    ELSE [ok |-> TRUE, status |-> 200, detail |-> "",
          id |-> ByUsername(users, response.username).id,
          role |-> ByUsername(users, response.username).role]

Unauthenticated(op, token, auth) ==
    /\ resp' = Response(op, token, auth.status, auth.detail, NoToken, {})
    /\ UNCHANGED <<users, registered, nextId, cache, now, tz, checked, rpc, issued, history, nextHistoryId, running>>

\* dashboard:user:<id>:type:<type or 'all'>:keyword:none:start:none:end:none
DashboardKey(user_id, type) ==
    <<"dashboard", IdStr(user_id), IF type = None THEN "all" ELSE type>>

DashboardValue(rows) == [tag |-> "dashboard", token |-> NoToken, data |-> rows]

\* redis_client.keys("dashboard:user:<id>:*")
dashboard_keys(c, user_id) ==
    {e.key : e \in {x \in c : x.key[1] = "dashboard" /\ x.key[2] = IdStr(user_id)}}

\* for key in keys: redis_client.delete(key)
redis_delete_keys(c, keys) == {e \in c : e.key \notin keys}

\* redis_client.delete("dashboard:user:<id>:*"): DEL of the key of that name
DashboardPattern(user_id) == <<"dashboard:user:" \o IdStr(user_id) \o ":*">>

redis_delete_dashboard(c, user_id) == redis_delete(c, DashboardPattern(user_id))

\* the rows the handlers of dashboard_service may see: all for an admin, the
\* caller's own otherwise
visible(user) == {h \in history : user.role = "admin" \/ h.user_id = user.id}

\* GET /
get_dashboard(token, type) ==
    LET user == service_get_current_user(token) IN
    IF ~user.ok THEN Unauthenticated("get_dashboard", token, user)
    ELSE IF /\ redis_has(cache, DashboardKey(user.id, type))
            /\ redis_get(cache, DashboardKey(user.id, type)).data # {}
    THEN /\ resp' = Response("get_dashboard", token, 200, "", NoToken,
                             redis_get(cache, DashboardKey(user.id, type)).data)
         /\ UNCHANGED <<users, registered, nextId, cache, now, tz, checked, rpc, issued, history, nextHistoryId, running>>
    ELSE LET history_data ==
                 {h \in visible(user) : type \in {None, "all"} \/ h.type = type} IN
         /\ cache' = redis_setex(cache, DashboardKey(user.id, type), CACHE_TTL,
                                 DashboardValue(history_data), now)
         /\ resp' = Response("get_dashboard", token, 200, "", NoToken, history_data)
         /\ UNCHANGED <<users, registered, nextId, now, tz, checked, rpc, issued, history, nextHistoryId, running>>

\* PUT /dashboard/{id}; update_data is the request's dict, a key that is not
\* in it being Absent
update_dashboard(token, id, update_data) ==
    LET user == service_get_current_user(token) IN
    IF ~user.ok THEN Unauthenticated("update_dashboard", token, user)
    ELSE IF ~\E h \in visible(user) : h.id = id
    THEN /\ resp' = Response("update_dashboard", token, 404, "Entry not found", NoToken, {})
         /\ UNCHANGED <<users, registered, nextId, cache, now, tz, checked, rpc, issued, history, nextHistoryId, running>>
    ELSE LET old == CHOOSE h \in visible(user) : h.id = id
             new == [old EXCEPT
                       !.query = IF update_data.query # Absent THEN update_data.query ELSE @,
                       !.result = IF update_data.result # Absent THEN update_data.result ELSE @] IN
         /\ history' = (history \ {old}) \cup {new}
         /\ cache' = redis_delete_dashboard(cache, user.id)
         /\ resp' = Response("update_dashboard", token, 200, "", NoToken, {new})
         /\ UNCHANGED <<users, registered, nextId, now, tz, checked, rpc, issued, nextHistoryId, running>>

\* DELETE /dashboard/{id}
delete_dashboard(token, id) ==
    LET user == service_get_current_user(token) IN
    IF ~user.ok THEN Unauthenticated("delete_dashboard", token, user)
    ELSE IF ~\E h \in visible(user) : h.id = id
    THEN /\ resp' = Response("delete_dashboard", token, 404, "Entry not found", NoToken, {})
         /\ UNCHANGED <<users, registered, nextId, cache, now, tz, checked, rpc, issued, history, nextHistoryId, running>>
    ELSE LET old == CHOOSE h \in visible(user) : h.id = id IN
         /\ history' = history \ {old}
         /\ cache' = redis_delete_dashboard(cache, user.id)
         /\ resp' = Response("delete_dashboard", token, 200, "", NoToken, {})
         /\ UNCHANGED <<users, registered, nextId, now, tz, checked, rpc, issued, nextHistoryId, running>>

\* image:user:<id>:prompt:<prompt> and search:user:<id>:query:<query>
ResultKey(kind, user_id, text) == <<kind, IdStr(user_id), text>>
ResultValue(result) == [tag |-> "result", token |-> NoToken, data |-> {result}]

\* a generate that clears the caller's dashboard cache as dashboard_service
\* does, with one delete of the pattern's text
generate_keeping_dashboard(op, type, token, text, result) ==
    LET user == service_get_current_user(token) IN
    IF ~user.ok THEN Unauthenticated(op, token, user)
    ELSE IF redis_has(cache, ResultKey(type, user.id, text))
    THEN /\ resp' = Response(op, token, 200, "", NoToken, {})
         /\ UNCHANGED <<users, registered, nextId, cache, now, tz, checked, rpc, issued, history, nextHistoryId, running>>
    ELSE /\ nextHistoryId <= MaxHistory
         /\ history' = history \cup {HistoryRow(nextHistoryId, user.id, type, text, result)}
         /\ nextHistoryId' = nextHistoryId + 1
         /\ cache' = redis_setex(redis_delete_dashboard(cache, user.id),
                                 ResultKey(type, user.id, text), CACHE_TTL,
                                 ResultValue(result), now)
         /\ resp' = Response(op, token, 200, "", NoToken, {})
         /\ UNCHANGED <<users, registered, nextId, now, tz, checked, rpc, issued, running>>

\* the body shared by POST /generate (image_service, type "image") and POST
\* /query (search_service, type "search"): the cached result, or the call of
\* the generator, the history row, the scan and delete of the caller's
\* dashboard keys, and the result cached.  The generator's answer is result.
generate(op, type, token, text, result) ==
    LET user == service_get_current_user(token) IN
    IF ~user.ok THEN Unauthenticated(op, token, user)
    ELSE IF redis_has(cache, ResultKey(type, user.id, text))
    THEN /\ resp' = Response(op, token, 200, "", NoToken, {})
         /\ UNCHANGED <<users, registered, nextId, cache, now, tz, checked, rpc, issued, history, nextHistoryId, running>>
    ELSE /\ nextHistoryId <= MaxHistory
         /\ history' = history \cup {HistoryRow(nextHistoryId, user.id, type, text, result)}
         /\ nextHistoryId' = nextHistoryId + 1
         /\ cache' = redis_setex(redis_delete_keys(cache, dashboard_keys(cache, user.id)),
                                 ResultKey(type, user.id, text), CACHE_TTL,
                                 ResultValue(result), now)
         /\ resp' = Response(op, token, 200, "", NoToken, {})
         /\ UNCHANGED <<users, registered, nextId, now, tz, checked, rpc, issued, running>>

generate_image_endpoint(token, prompt) ==
    generate("generate_image_endpoint", "image", token, prompt, "https://example.com/images/" \o prompt \o ".png")

search_query(token, query) ==
    generate("search_query", "search", token, query, "summary of " \o query)

\* The requests that fail.  A request that is not answered from the cache
\* runs, inside one try block, the generator, the insert and commit, the scan
\* and delete of the dashboard keys and the setex of the result; whatever
\* raises there is answered with an error and the statements after it do not
\* run.  Only redis_client.get(cache_key) is outside the try block.

\* the status codes Tavily's API answers a failing search with, of which the
\* model has two
TavilyErrors == {429, 500}

\* search_service lines 42-43, 61-66 and 103-104: query_tavily raises
\* HTTPException, which search_query raises again
search_query_failed(token, query, status) ==
    LET user == service_get_current_user(token) IN
    /\ user.ok
    /\ ~redis_has(cache, ResultKey("search", user.id, query))
    /\ resp' = Response("search_query", token, status, "Search failed", NoToken, {})
    /\ UNCHANGED <<users, registered, nextId, cache, now, tz, checked, rpc, issued, history, nextHistoryId, running>>

\* image_service lines 126 and 141-143, search_service lines 91 and 105-107:
\* db.commit() raises, the row is not stored
generate_commit_error(op, type, token, text) ==
    LET user == service_get_current_user(token) IN
    /\ user.ok
    /\ ~redis_has(cache, ResultKey(type, user.id, text))
    /\ resp' = Response(op, token, HTTP_500_INTERNAL_SERVER_ERROR, "failed", NoToken, {})
    /\ UNCHANGED <<users, registered, nextId, cache, now, tz, checked, rpc, issued, history, nextHistoryId, running>>

\* the Redis calls of a request, in the order of the source
RedisCalls == {"get", "keys", "delete", "setex"}

\* Redis stops answering at one of the request's calls: at the first get
\* nothing has happened; at keys the row is committed; at a delete of the
\* loop the keys in deleted are gone already; at setex all of them are
generate_redis_error(op, type, token, text, result, call, deleted) ==
    LET user == service_get_current_user(token) IN
    /\ user.ok
    /\ call \in RedisCalls
    /\ resp' = Response(op, token, HTTP_500_INTERNAL_SERVER_ERROR, "failed", NoToken, {})
    /\ IF call = "get"
       THEN /\ deleted = {}
            /\ UNCHANGED <<cache, history, nextHistoryId>>
       ELSE /\ ~redis_has(cache, ResultKey(type, user.id, text))
            /\ nextHistoryId <= MaxHistory
            /\ history' = history \cup {HistoryRow(nextHistoryId, user.id, type, text, result)}
            /\ nextHistoryId' = nextHistoryId + 1
            /\ deleted \subseteq dashboard_keys(cache, user.id)
            /\ call = "keys" => deleted = {}
            /\ call = "delete" => deleted # dashboard_keys(cache, user.id)
            /\ call = "setex" => deleted = dashboard_keys(cache, user.id)
            /\ cache' = redis_delete_keys(cache, deleted)
    /\ UNCHANGED <<users, registered, nextId, now, tz, checked, rpc, issued, running>>

\* a failing request of either service
generate_image_endpoint_error(token, prompt) ==
    \/ generate_commit_error("generate_image_endpoint", "image", token, prompt)
    \/ \E call \in RedisCalls, deleted \in SUBSET dashboard_keys(cache, service_get_current_user(token).id) :
          generate_redis_error("generate_image_endpoint", "image", token, prompt,
                               "https://example.com/images/" \o prompt \o ".png", call, deleted)

search_query_error(token, query) ==
    \/ \E status \in TavilyErrors : search_query_failed(token, query, status)
    \/ generate_commit_error("search_query", "search", token, query)
    \/ \E call \in RedisCalls, deleted \in SUBSET dashboard_keys(cache, service_get_current_user(token).id) :
          generate_redis_error("search_query", "search", token, query,
                               "summary of " \o query, call, deleted)

Prompts == {"cat"}
HistoryUpdates == [query : {"dog", Absent}, result : {"edited", Absent}]
TypeFilters == {None, "image"}

-----------------------------------------------------------------------------
(* The mutating handlers statement by statement.  A path is the sequence of  *)
(* store and cache calls a handler makes, in the order of its source, on the *)
(* way that commits; running keeps the calls made and those to come.         *)

NoKey == <<>>
NoValue == [tag |-> "", token |-> NoToken]
NoRows == [users |-> {}, nextId |-> 0, history |-> {}, nextHistoryId |-> 0]
JsonValue == [tag |-> "json", token |-> NoToken]

Call(kind, key, keys, val, rows, status) ==
    [kind |-> kind, key |-> key, keys |-> keys, val |-> val, rows |-> rows, status |-> status]

cache_get(key) == Call("cache.get", key, {}, NoValue, NoRows, 0)
cache_keys(keys) == Call("cache.keys", NoKey, keys, NoValue, NoRows, 0)
cache_setex(key, val) == Call("cache.setex", key, {}, val, NoRows, 0)
cache_delete(key) == Call("cache.delete", key, {}, NoValue, NoRows, 0)
cache_delete_each(keys) == Call("cache.delete", NoKey, keys, NoValue, NoRows, 0)
db_query == Call("db.query", NoKey, {}, NoValue, NoRows, 0)
db_commit(u, h) ==
    Call("db.commit", NoKey, {}, NoValue,
         [users |-> u,
          nextId |-> IF \E row \in u : row.id = nextId THEN nextId + 1 ELSE nextId,
          history |-> h,
          nextHistoryId |-> IF \E row \in h : row.id = nextHistoryId
                            THEN nextHistoryId + 1 ELSE nextHistoryId], 0)
answer(status) == Call("return", NoKey, {}, NoValue, NoRows, status)

\* auth_service register, lines 52-73
register_path(username, password, role) ==
    <<cache_get(UserKey(username)),
      db_query,
      db_commit(users \cup {UserRow(nextId, username, password, role)}, history),
      cache_setex(TokenKey(username),
                  TokenValue(create_access_token([sub |-> username, role |-> role], now))),
      answer(200)>>

\* what follows the commit in create_user, update_user and change_user_role:
\* json.dumps(user.__dict__), setex of user:<id>, delete of admin:users:*
after_commit(user) ==
    IF json_dumps_row(user).ok
    THEN <<cache_setex(UserKey(IdStr(user.id)), JsonValue),
           cache_delete(<<"admin:users:*">>),
           answer(200)>>
    ELSE <<answer(HTTP_500_INTERNAL_SERVER_ERROR)>>

\* admin_service create_user, lines 95-118
create_user_path(username, password, role) ==
    <<cache_get(UserKey(username)),
      db_query,
      db_commit(users \cup {UserRow(nextId, username, password, role)}, history)>>
    \o after_commit(UserRow(nextId, username, password, role))

\* admin_service update_user, lines 128-155
update_user_path(user_id, update_data) ==
    LET old == ById(users, user_id)
        user == [id |-> old.id,
                 username |-> IF update_data.username # Absent
                              THEN update_data.username ELSE old.username,
                 hashed_password |-> IF update_data.password # Absent
                                     THEN pwd_hash(update_data.password)
                                     ELSE old.hashed_password,
                 role |-> IF update_data.role # Absent
                          THEN update_data.role ELSE old.role] IN
    <<db_query, db_commit((users \ {old}) \cup {user}, history)>> \o after_commit(user)

\* admin_service change_user_role, lines 284-299
change_user_role_path(user_id, new_role) ==
    LET user == [ById(users, user_id) EXCEPT !.role = new_role] IN
    <<db_query, db_commit((users \ {ById(users, user_id)}) \cup {user}, history)>>
    \o after_commit(user)

\* a delete_user that clears the cache before it commits
delete_user_path_cache_first(user_id) ==
    <<db_query,
      cache_delete(UserKey(IdStr(user_id))),
      cache_delete(UserKey(ById(users, user_id).username)),
      cache_delete(<<"admin:users:*">>),
      db_commit(users \ {ById(users, user_id)}, {h \in history : h.user_id # user_id}),
      answer(200)>>

\* admin_service delete_user, lines 164-180
delete_user_path(user_id) ==
    <<db_query,
      db_commit(users \ {ById(users, user_id)}, {h \in history : h.user_id # user_id}),
      cache_delete(UserKey(IdStr(user_id))),
      cache_delete(UserKey(ById(users, user_id).username)),
      cache_delete(<<"admin:users:*">>),
      answer(200)>>

\* dashboard_service update_dashboard, lines 88-113
update_dashboard_path(user, id, update_data) ==
    LET old == CHOOSE h \in visible(user) : h.id = id
        new == [old EXCEPT
                  !.query = IF update_data.query # Absent THEN update_data.query ELSE @,
                  !.result = IF update_data.result # Absent THEN update_data.result ELSE @] IN
    <<db_query,
      db_commit(users, (history \ {old}) \cup {new}),
      cache_delete(DashboardPattern(user.id)),
      answer(200)>>

\* dashboard_service delete_dashboard, lines 121-133
delete_dashboard_path(user, id) ==
    <<db_query,
      db_commit(users, history \ {CHOOSE h \in visible(user) : h.id = id}),
      cache_delete(DashboardPattern(user.id)),
      answer(200)>>

\* image_service generate_image_endpoint, lines 110-140, and search_service
\* search_query, lines 75-102
generate_path(type, user, text, result) ==
    <<cache_get(ResultKey(type, user.id, text)),
      db_commit(users, history \cup {HistoryRow(nextHistoryId, user.id, type, text, result)}),
      cache_keys(dashboard_keys(cache, user.id)),
      cache_delete_each(dashboard_keys(cache, user.id)),
      cache_setex(ResultKey(type, user.id, text), ResultValue(result)),
      answer(200)>>

\* a handler starts on its committing path
begin(op, path) ==
    /\ running.todo = <<>>
    /\ running' = [op |-> op, todo |-> path, done |-> <<>>]
    /\ UNCHANGED <<users, registered, nextId, cache, now, tz, checked, rpc, issued, history,
                   nextHistoryId, resp>>

register_begin(username, password, role) ==
    /\ ~redis_has(cache, UserKey(username))
    /\ ~register_db_user(users, username)
    /\ nextId <= MaxUsers
    /\ begin("register", register_path(username, password, role))

create_user_begin(token, username, password, role) ==
    /\ get_admin_user(token).ok
    /\ ~redis_has(cache, UserKey(username))
    /\ ~HasUsername(users, username)
    /\ nextId <= MaxUsers
    /\ begin("create_user", create_user_path(username, password, role))

update_user_begin(token, user_id, update_data) ==
    /\ get_admin_user(token).ok
    /\ HasId(users, user_id)
    /\ ~(/\ update_data.username # Absent
         /\ \E u \in users : u.username = update_data.username /\ u.id # user_id)
    /\ ~(update_data.role # Absent /\ update_data.role \notin {"user", "admin"})
    /\ begin("update_user", update_user_path(user_id, update_data))

change_user_role_begin(token, user_id, new_role) ==
    /\ get_admin_user(token).ok
    /\ new_role \in {"user", "admin"}
    /\ HasId(users, user_id)
    /\ user_id # get_admin_user(token).id
    /\ begin("change_user_role", change_user_role_path(user_id, new_role))

delete_user_begin(token, user_id) ==
    /\ get_admin_user(token).ok
    /\ HasId(users, user_id)
    /\ user_id # get_admin_user(token).id
    /\ begin("delete_user", delete_user_path(user_id))

update_dashboard_begin(token, id, update_data) ==
    /\ service_get_current_user(token).ok
    /\ \E h \in visible(service_get_current_user(token)) : h.id = id
    /\ begin("update_dashboard",
             update_dashboard_path(service_get_current_user(token), id, update_data))

delete_dashboard_begin(token, id) ==
    /\ service_get_current_user(token).ok
    /\ \E h \in visible(service_get_current_user(token)) : h.id = id
    /\ begin("delete_dashboard", delete_dashboard_path(service_get_current_user(token), id))

generate_image_endpoint_begin(token, prompt) ==
    /\ service_get_current_user(token).ok
    /\ ~redis_has(cache, ResultKey("image", service_get_current_user(token).id, prompt))
    /\ nextHistoryId <= MaxHistory
    /\ begin("generate_image_endpoint",
             generate_path("image", service_get_current_user(token), prompt,
                           "https://example.com/images/" \o prompt \o ".png"))

search_query_begin(token, query) ==
    /\ service_get_current_user(token).ok
    /\ ~redis_has(cache, ResultKey("search", service_get_current_user(token).id, query))
    /\ nextHistoryId <= MaxHistory
    /\ begin("search_query",
             generate_path("search", service_get_current_user(token), query,
                           "summary of " \o query))

\* the running handler makes its next call
step ==
    /\ running.todo # <<>>
    /\ LET call == Head(running.todo) IN
       /\ running' = IF call.kind = "return"
                     THEN NoRequest
                     ELSE [running EXCEPT !.todo = Tail(@), !.done = Append(@, call)]
       /\ IF call.kind = "db.commit"
          THEN /\ users' = call.rows.users
               /\ nextId' = call.rows.nextId
               /\ history' = call.rows.history
               /\ nextHistoryId' = call.rows.nextHistoryId
          ELSE UNCHANGED <<users, nextId, history, nextHistoryId>>
       /\ IF call.kind = "cache.setex"
          THEN cache' = redis_setex(cache, call.key, CACHE_TTL, call.val, now)
          ELSE IF call.kind = "cache.delete"
          THEN cache' = redis_delete_keys(redis_delete(cache, call.key), call.keys)
          ELSE cache' = cache
       /\ IF call.kind = "return"
          THEN resp' = Response(running.op, NoReq, call.status, "", NoToken, NoBody)
          ELSE resp' = resp
    /\ UNCHANGED <<registered, now, tz, checked, rpc, issued>>

-----------------------------------------------------------------------------
(* The clock: time passes, and Redis drops the keys whose TTL has run out *)

Tick ==
    /\ now + TickSeconds <= MaxTime
    /\ now' = now + TickSeconds
    /\ cache' = redis_expire(cache, now')
    /\ resp' = Response("tick", NoReq, 0, "", NoToken, NoBody)
    /\ UNCHANGED <<users, registered, nextId, tz, checked, rpc, issued, history, nextHistoryId, running>>

-----------------------------------------------------------------------------

Init ==
    /\ users = {}
    /\ nextId = 1
    /\ cache = {}
    /\ now = 0
    /\ tz = 0
    /\ rpc = NoRpc
    /\ resp = Response("start", NoReq, 0, "", NoToken, NoBody)
    /\ registered = {}
    /\ checked = {}
    /\ issued = NoLedger
    /\ history = {}
    /\ nextHistoryId = 1
    /\ running = NoRequest

\* Token validation: identities register once with one password, log in,
\* present their tokens and probes to the validator and to the service-local
\* authenticator, while admins change, rename and delete identities.
Next ==
    \/ \E u \in Names, r \in Roles : ~HasUsername(users, u) /\ register(u, "pw1", r)
    \/ \E u \in Names : login(u, "pw1")
    \/ \E t \in IssuedTokens \cup ProbeTokens : ValidateToken(t)
    \/ \E t \in IssuedTokens \cup ProbeTokens : get_current_user_rpc(t)
    \/ get_current_user_lookup
    \/ \E t \in IssuedTokens, id \in Ids, r \in Roles : change_user_role(t, id, r)
    \/ \E t \in IssuedTokens, id \in Ids, d \in {x \in UpdateDatas : OneKey(x) /\ x.password = Absent} :
          update_user(t, id, d)
    \/ \E t \in IssuedTokens, id \in Ids : delete_user(t, id)
    \/ Tick

Spec == Init /\ [][Next]_vars

\* Credential issuance: register and login with every password and on every
\* server zone, while admins change passwords and roles, rename and delete.
InitIssue ==
    /\ users = {}
    /\ nextId = 1
    /\ cache = {}
    /\ now = 0
    /\ tz \in TzOffsets
    /\ rpc = NoRpc
    /\ resp = Response("start", NoReq, 0, "", NoToken, NoBody)
    /\ registered = {}
    /\ checked = {}
    /\ issued = NoLedger
    /\ history = {}
    /\ nextHistoryId = 1
    /\ running = NoRequest

NextIssue ==
    \/ \E u \in Names, p \in Passwords, r \in RoleInputs : ~HasUsername(users, u) /\ register(u, p, r)
    \/ \E u \in Names, p \in Passwords : login(u, p)
    \/ \E t \in IssuedTokens, id \in Ids, d \in {x \in UpdateDatas : OneKey(x)} : update_user(t, id, d)
    \/ \E t \in IssuedTokens, id \in Ids : delete_user(t, id)
    \/ Tick

SpecIssue == InitIssue /\ [][NextIssue]_vars

\* Registration: every register request, duplicates included, while admins
\* rename and delete identities.
NextRegister ==
    \/ \E u \in Names, p \in Passwords, r \in RoleInputs : register(u, p, r)
    \/ \E t \in IssuedTokens, id \in Ids, d \in {x \in UpdateDatas : OneKey(x) /\ x.username # Absent} :
          update_user(t, id, d)
    \/ \E t \in IssuedTokens, id \in Ids : delete_user(t, id)
    \/ Tick

SpecRegister == Init /\ [][NextRegister]_vars


\* The gateway: identities register, get deleted, and present their tokens and
\* probes to the gateway, whose downstream calls succeed, are refused or fail;
\* services authenticate while the validator is reachable or not.
NextGateway ==
    \/ \E u \in Names, r \in Roles : ~HasUsername(users, u) /\ register(u, "pw1", r)
    \/ \E t \in IssuedTokens \cup GatewayProbeTokens, net \in {"ok"} \cup ClientErrors :
          gateway_validate(t, net)
    \/ \E t \in IssuedTokens \cup GatewayProbeTokens, d \in Downstreams : gateway_forward(t, d)
    \/ \E t \in IssuedTokens \cup ProbeTokens : get_current_user_rpc(t)
    \/ \E t \in IssuedTokens \cup ProbeTokens : get_current_user_unavailable(t)
    \/ get_current_user_lookup
    \/ \E t \in IssuedTokens, id \in Ids : delete_user(t, id)
    \/ Tick

SpecGateway == Init /\ [][NextGateway]_vars


\* Administration: identities register or are created by admins with any
\* role string, admins change roles, delete and look up identities.
NextAdmin ==
    \/ \E u \in Names, r \in RoleValues : ~HasUsername(users, u) /\ register(u, "pw1", r)
    \/ \E t \in IssuedTokens, u \in Names, r \in RoleValues : create_user(t, u, "pw1", r)
    \/ \E t \in IssuedTokens, id \in Ids, r \in RoleValues : change_user_role(t, id, r)
    \/ \E t \in IssuedTokens, id \in Ids,
          d \in {x \in UpdateDatas : x.username = Absent /\ x.password = Absent /\ x.role # Absent} :
          update_user(t, id, d)
    \/ \E t \in IssuedTokens, id \in Ids : delete_user(t, id)
    \/ \E t \in IssuedTokens, id \in Ids : get_user_by_id(t, id)
    \/ Tick

SpecAdmin == Init /\ [][NextAdmin]_vars


\* Concurrent registration: the auth service runs several worker processes,
\* whose register requests interleave statement by statement.
NextRace ==
    \/ \E u \in Names, p \in Passwords, r \in Roles : register_check(u, p, r)
    \/ \E request \in checked : register_commit(request)
    \/ Tick

SpecRace == Init /\ [][NextRace]_vars

\* Token binding: identities register, admins rename and delete them, freed
\* usernames are registered again, and every token minted so far is presented
\* to the validator.
InitBinding ==
    /\ users = {}
    /\ nextId = 1
    /\ cache = {}
    /\ now = 0
    /\ tz = 0
    /\ rpc = NoRpc
    /\ resp = Response("start", NoReq, 0, "", NoToken, NoBody)
    /\ registered = {}
    /\ checked = {}
    /\ issued = EmptyLedger
    /\ history = {}
    /\ nextHistoryId = 1
    /\ running = NoRequest

NextBinding ==
    \/ \E u \in Names, r \in Roles : ~HasUsername(users, u) /\ register(u, "pw1", r)
    \/ \E t \in IssuedTokens, id \in Ids, d \in {x \in UpdateDatas : OneKey(x) /\ x.username # Absent} :
          update_user(t, id, d)
    \/ \E t \in IssuedTokens, id \in Ids : delete_user(t, id)
    \/ \E pair \in issued.pairs : ValidateToken(pair.token)
    \/ Tick

SpecBinding == InitBinding /\ [][NextBinding]_vars

\* Dashboards: two admins are registered and hold their tokens; they generate
\* images, read, update and delete history entries, and change each other's
\* role.
InitDashboard ==
    /\ users = {UserRow(1, "alice", "pw1", "admin"), UserRow(2, "bob", "pw1", "admin")}
    /\ nextId = 3
    /\ cache = redis_setex(
                  redis_setex({}, TokenKey("alice"), CACHE_TTL,
                              TokenValue(create_access_token([sub |-> "alice", role |-> "admin"], 0)), 0),
                  TokenKey("bob"), CACHE_TTL,
                  TokenValue(create_access_token([sub |-> "bob", role |-> "admin"], 0)), 0)
    /\ now = 0
    /\ tz = 0
    /\ rpc = NoRpc
    /\ resp = Response("start", NoReq, 0, "", NoToken, NoBody)
    /\ registered = {}
    /\ checked = {}
    /\ issued = NoLedger
    /\ history = {}
    /\ nextHistoryId = 1
    /\ running = NoRequest

NextDashboard ==
    \/ \E t \in IssuedTokens, id \in Ids, r \in Roles : change_user_role(t, id, r)
    \/ \E t \in IssuedTokens, p \in Prompts : generate_image_endpoint(t, p)
    \/ \E t \in IssuedTokens : get_dashboard(t, None)
    \/ \E t \in IssuedTokens, id \in 1..MaxHistory :
          update_dashboard(t, id, [query |-> "dog", result |-> Absent])
    \/ \E t \in IssuedTokens, id \in 1..MaxHistory : delete_dashboard(t, id)

SpecDashboard == InitDashboard /\ [][NextDashboard]_vars

\* Invalidation of the listings: the same, and the admins list and delete
\* users.
NextInvalidate ==
    \/ NextDashboard
    \/ \E t \in IssuedTokens, id \in Ids : delete_user(t, id)
    \/ \E t \in IssuedTokens, f \in {None, "user"} : get_all_users(t, f)

SpecInvalidate == InitDashboard /\ [][NextInvalidate]_vars


\* Generation and search: two identities generate images and search, with
\* the generator, the store or Redis failing at any statement, and read
\* their dashboards in between.
NextGenerate ==
    \/ \E t \in IssuedTokens, p \in Prompts : generate_image_endpoint(t, p)
    \/ \E t \in IssuedTokens, q \in Prompts : search_query(t, q)
    \/ \E t \in IssuedTokens, p \in Prompts : generate_image_endpoint_error(t, p)
    \/ \E t \in IssuedTokens, q \in Prompts : search_query_error(t, q)
    \/ \E t \in IssuedTokens, f \in TypeFilters : get_dashboard(t, f)

SpecGenerate == InitDashboard /\ [][NextGenerate]_vars

\* Redis failing: identities register and log in, admins delete them, and
\* Redis may stop answering in the middle of any of these requests.
NextRedisError ==
    \/ \E u \in Names, r \in Roles : ~HasUsername(users, u) /\ register(u, "pw1", r)
    \/ \E u \in Names, r \in Roles : register_redis_error(u, "pw1", r)
    \/ \E u \in Names, p \in Passwords : login(u, p)
    \/ \E u \in Names, p \in Passwords : login_redis_error(u, p)
    \/ \E t \in IssuedTokens, id \in Ids : delete_user(t, id)
    \/ \E t \in IssuedTokens, id \in Ids : delete_user_redis_error(t, id)
    \/ Tick

SpecRedisError == Init /\ [][NextRedisError]_vars

\* The RPC in flight: a service sends ValidateToken and waits; the validator
\* may answer, the channel may fail, or neither happens.  The service runs
\* its own statements whenever it can and time passes; nothing obliges the
\* validator to answer.
NextWaiting ==
    \/ \E u \in Names, r \in Roles : ~HasUsername(users, u) /\ register(u, "pw1", r)
    \/ \E t \in IssuedTokens \cup ProbeTokens : get_current_user_call(t)
    \/ get_current_user_answer
    \/ get_current_user_rpc_error
    \/ get_current_user_lookup
    \/ Tick

SpecWaiting ==
    /\ Init
    /\ [][NextWaiting]_vars
    /\ WF_vars(get_current_user_lookup)
    /\ WF_vars(Tick)

\* Coherence of user:<id>: usernames are free strings, one of them the
\* decimal form of an id; identities register, duplicates included, and
\* admins look up, change and delete them.
Usernames == {"alice", "1"}

NextCoherence ==
    \/ \E u \in Usernames, r \in Roles : register(u, "pw1", r)
    \/ \E t \in IssuedTokens, id \in Ids : get_user_by_id(t, id)
    \/ \E t \in IssuedTokens, id \in Ids, r \in Roles : change_user_role(t, id, r)
    \/ \E t \in IssuedTokens, id \in Ids :
          update_user(t, id, [username |-> Absent, role |-> Absent, password |-> "pw2"])
    \/ \E t \in IssuedTokens, id \in Ids : delete_user(t, id)
    \/ Tick

SpecCoherence == Init /\ [][NextCoherence]_vars

\* Order of store and cache calls: every mutating handler, one request at a
\* time, statement by statement.
NextOrder ==
    \/ \E u \in Names : register_begin(u, "pw1", "admin")
    \/ \E t \in IssuedTokens, u \in Names : create_user_begin(t, u, "pw1", "user")
    \/ \E t \in IssuedTokens, id \in Ids, r \in Roles :
          update_user_begin(t, id, [username |-> Absent, role |-> r, password |-> Absent])
    \/ \E t \in IssuedTokens, id \in Ids, r \in Roles : change_user_role_begin(t, id, r)
    \/ \E t \in IssuedTokens, id \in Ids : delete_user_begin(t, id)
    \/ \E t \in IssuedTokens, p \in Prompts : generate_image_endpoint_begin(t, p)
    \/ \E t \in IssuedTokens, q \in Prompts : search_query_begin(t, q)
    \/ \E t \in IssuedTokens, id \in 1..MaxHistory :
          update_dashboard_begin(t, id, [query |-> "dog", result |-> Absent])
    \/ \E t \in IssuedTokens, id \in 1..MaxHistory : delete_dashboard_begin(t, id)
    \/ step

SpecOrder == Init /\ [][NextOrder]_vars

-----------------------------------------------------------------------------
(* Token validation (specification Spec) *)

\* the last request was ValidateToken with a token the auth service issued
ValidatedIssued == resp.op = "ValidateToken" /\ resp.req \in IssuedTokens

\* C1, as the spec states it: a token issued by Register or Login validates
\* as valid with its username while its expiry lies ahead and as invalid once
\* the expiry has passed, whatever admins did to the identity in between.
C1_IssuedTokenValidates ==
    ValidatedIssued =>
        /\ now < resp.req.exp =>
              /\ resp.body.valid
              /\ resp.body.username = resp.req.sub
        /\ now > resp.req.exp => ~resp.body.valid

\* C1, amended: while its expiry has not passed, an issued token validates as
\* valid with its username and the role the store holds now as long as an
\* identity named by its sub exists, and as "User not found" once admins
\* deleted or renamed that identity; once the expiry has passed it validates
\* as invalid.
C1_IssuedTokenValidatesWhileIdentityExists ==
    ValidatedIssued =>
        /\ resp.status = GRPC_OK
        /\ (now <= resp.req.exp /\ HasUsername(users, resp.req.sub)) =>
              /\ resp.body.valid
              /\ resp.body.username = resp.req.sub
              /\ resp.body.role = ByUsername(users, resp.req.sub).role
        /\ (now <= resp.req.exp /\ ~HasUsername(users, resp.req.sub)) =>
              /\ ~resp.body.valid
              /\ resp.detail = "User not found"
        /\ now > resp.req.exp =>
              /\ ~resp.body.valid
              /\ resp.detail = ERR_EXPIRED

\* an unexpired issued token of a deleted or renamed identity was validated
C1_Witness ==
    /\ ValidatedIssued
    /\ now < resp.req.exp
    /\ ~HasUsername(users, resp.req.sub)
    /\ ~resp.body.valid

\* C2: after an admin changed the role of an identity, ValidateToken on a
\* token issued before the change and not yet expired returns valid=true with
\* the role the store holds now, never the role the token carries.
C2_RoleReResolved ==
    (/\ ValidatedIssued
     /\ now <= resp.req.exp
     /\ HasUsername(users, resp.req.sub)
     /\ ByUsername(users, resp.req.sub).role # resp.req.role) =>
        /\ resp.body.valid
        /\ resp.body.role = ByUsername(users, resp.req.sub).role
        /\ resp.body.role # resp.req.role

\* a token was validated whose role claim the store no longer holds
C2_Witness ==
    /\ ValidatedIssued
    /\ resp.body.valid
    /\ resp.body.role # resp.req.role
    /\ resp.body.role = ByUsername(users, resp.req.sub).role

Verifiable(token, t) ==
    token.kind = "jwt" /\ token.sig = "good" /\ (token.exp = NoExp \/ token.exp >= t)

\* C8, as the spec states it: a malformed token or one with an invalid
\* signature yields "invalid token", a verifiable token without sub yields
\* "Invalid token payload", a verifiable token with an unknown sub yields
\* "User not found".
C8_FixedErrors ==
    resp.op = "ValidateToken" =>
        /\ (resp.req.kind # "jwt" \/ resp.req.sig # "good") =>
              resp.detail = "invalid token"
        /\ (Verifiable(resp.req, now) /\ resp.req.sub \in {None, ""}) =>
              resp.detail = "Invalid token payload"
        /\ (/\ Verifiable(resp.req, now)
            /\ resp.req.sub \notin {None, ""}
            /\ ~HasUsername(users, resp.req.sub)) =>
              resp.detail = "User not found"

\* C8, amended: a token that does not verify yields the message of the JWT
\* library's error ("Not enough segments" for a malformed token, "Signature
\* verification failed." for a bad signature, "Signature has expired." for a
\* passed exp), and that before its claims are looked at; a verifiable token
\* without sub yields "Invalid token payload", a verifiable token with an
\* unknown sub yields "User not found".
C8_LibraryErrors ==
    resp.op = "ValidateToken" =>
        /\ resp.req.kind # "jwt" => resp.detail = ERR_SEGMENTS
        /\ (resp.req.kind = "jwt" /\ resp.req.sig # "good") =>
              resp.detail = ERR_SIGNATURE
        /\ (/\ resp.req.kind = "jwt"
            /\ resp.req.sig = "good"
            /\ ~Verifiable(resp.req, now)) =>
              resp.detail = ERR_EXPIRED
        /\ (Verifiable(resp.req, now) /\ resp.req.sub \in {None, ""}) =>
              resp.detail = "Invalid token payload"
        /\ (/\ Verifiable(resp.req, now)
            /\ resp.req.sub \notin {None, ""}
            /\ ~HasUsername(users, resp.req.sub)) =>
              resp.detail = "User not found"

\* a token with a bad signature and no sub was answered with the signature
\* error
C8_Witness ==
    /\ resp.op = "ValidateToken"
    /\ resp.req = Probe("bad", None, NoExp)
    /\ resp.detail = ERR_SIGNATURE

\* C9: ValidateToken is read-only and idempotent: it changes neither the
\* store nor the cache, and a call that follows a call with the same token,
\* with requests of other services in flight, returns the same verdict.
C9_ReadOnlyIdempotent ==
    [][resp'.op = "ValidateToken" =>
          /\ users' = users
          /\ nextId' = nextId
          /\ cache' = cache
          /\ (resp.op = "ValidateToken" /\ resp.req = resp'.req) => resp' = resp]_vars

\* an issued token was validated while another service's authentication was
\* between its RPC and its store query
C9_Witness ==
    /\ ValidatedIssued
    /\ resp.body.valid
    /\ rpc.pending
    /\ users # {}
    /\ cache # {}

\* C10: the service-local authenticator returns an identity only if the
\* validator answered valid=true and an identity with the returned username
\* exists in the local store when it is looked up; an invalid verdict is
\* answered 401 carrying the verdict's error, a missing local identity 401
\* "User not found".
C10_Authenticate ==
    [][/\ (resp'.op = "get_current_user" /\ resp'.status = 200) =>
             /\ rpc.pending
             /\ HasUsername(users, rpc.username)
             /\ resp'.body.username = rpc.username
             /\ resp'.body.id = ByUsername(users, rpc.username).id
             /\ resp'.body.role = ByUsername(users, rpc.username).role
       /\ (rpc'.pending /\ ~rpc.pending) =>
             /\ resp'.op = "get_current_user_rpc"
             /\ Verifiable(resp'.req, now)
             /\ HasUsername(users, resp'.req.sub)
             /\ rpc'.username = resp'.req.sub
       /\ (rpc.pending /\ ~rpc'.pending /\ ~HasUsername(users, rpc.username)) =>
             /\ resp'.status = 401
             /\ resp'.detail = "User not found"
       /\ \A t \in IssuedTokens \cup ProbeTokens :
             (get_current_user_rpc(t) /\ ~ValidateTokenResponse(t, users, now).valid) =>
                /\ resp'.status = 401
                /\ resp'.detail = "Invalid token: " \o ValidateTokenResponse(t, users, now).error
                /\ ~rpc'.pending]_vars

\* the authenticator answered "User not found": the identity was deleted or
\* renamed between the RPC and the store query
C10_Witness ==
    /\ resp.op = "get_current_user"
    /\ resp.req = NoToken
    /\ resp.status = 401
    /\ resp.detail = "User not found"

-----------------------------------------------------------------------------
(* Credential issuance (specification SpecIssue) *)

\* the token Redis holds under token:<username>
CachedToken(username) == redis_get(cache, TokenKey(username)).token

\* C3: for every (username, password, role) registered once, and not changed
\* or deleted by an admin since, a Login with that username and password
\* returns a token whose sub is the username and whose role is the registered
\* role, on the cached-token path and on the mint-fresh path.
C3_LoginReturnsRegistered ==
    [][\A g \in registered :
          login(g.username, g.password) =>
             /\ resp'.status = 200
             /\ resp'.token.kind = "jwt"
             /\ resp'.token.sig = "good"
             /\ resp'.token.sub = g.username
             /\ resp'.token.role = g.role]_vars

\* a registered admin logged in after its first token had expired and got a
\* token minted at that time
C3_Witness ==
    /\ resp.op = "login"
    /\ resp.status = 200
    /\ now > 0
    /\ resp.token.exp = now + expires_delta_minutes * 60
    /\ \E g \in registered :
          /\ g.username = resp.req
          /\ g.role = "admin"
          /\ resp.token.sub = g.username
          /\ resp.token.role = g.role

\* C5: a Login that finds under token:<username> a token whose signature
\* verifies and whose expiry has not passed returns exactly that token for any
\* password, and writes neither the cache nor the store.
C5_CachedTokenReturned ==
    [][\A u \in Names, p \in Passwords :
          (/\ redis_has(cache, TokenKey(u))
           /\ CachedToken(u).kind = "jwt"
           /\ CachedToken(u).sig = "good"
           /\ CachedToken(u).exp > now
           /\ login(u, p)) =>
             /\ resp'.status = 200
             /\ resp'.token = CachedToken(u)
             /\ cache' = cache
             /\ users' = users]_vars

\* C6: a Login that finds no usable cached token answers 401 when no identity
\* has the username or the password does not match, minting no token and
\* leaving cache and store unchanged; otherwise it mints a fresh token for the
\* stored identity and stores it under token:<username>.
C6_LoginAgainstStore ==
    [][\A u \in Names, p \in Passwords :
          (/\ ~(/\ redis_has(cache, TokenKey(u))
                /\ CachedToken(u).kind = "jwt"
                /\ CachedToken(u).sig = "good"
                /\ CachedToken(u).exp >= now)
           /\ login(u, p)) =>
             IF \/ ~HasUsername(users, u)
                \/ ByUsername(users, u).hashed_password # pwd_hash(p)
             THEN /\ resp'.status = 401
                  /\ resp'.detail = "Invalid credentials"
                  /\ resp'.token = NoToken
                  /\ cache' = cache
                  /\ users' = users
             ELSE /\ resp'.status = 200
                  /\ resp'.token.kind = "jwt"
                  /\ resp'.token.sig = "good"
                  /\ resp'.token.sub = u
                  /\ resp'.token.role = ByUsername(users, u).role
                  /\ resp'.token.exp = now + expires_delta_minutes * 60
                  /\ redis_has(cache', TokenKey(u))
                  /\ redis_get(cache', TokenKey(u)).token = resp'.token
                  /\ users' = users]_vars

\* a Login with a wrong password for an identity whose cached token had
\* expired was answered 401
C6_Witness ==
    /\ resp.op = "login"
    /\ resp.status = 401
    /\ HasUsername(users, resp.req)
    /\ redis_has(cache, TokenKey(resp.req))
    /\ CachedToken(resp.req).exp < now

-----------------------------------------------------------------------------
(* Registration (specification SpecRegister) *)

\* C4: once an identity holds a username, a Register of that username fails
\* with 400 and leaves the identity's password hash, role and id as they
\* were.
C4_DuplicateRegisterRejected ==
    [][(resp'.op = "register" /\ HasUsername(users, resp'.req)) =>
          /\ resp'.status = 400
          /\ resp'.token = NoToken
          /\ users' = users
          /\ nextId' = nextId]_vars

\* a second Register of a username was answered 400 while the identity the
\* first one created is in the store as registered
C4_Witness ==
    /\ resp.op = "register"
    /\ resp.status = 400
    /\ \E g \in registered :
          /\ g.username = resp.req
          /\ UserRow(g.id, g.username, g.password, g.role) \in users

-----------------------------------------------------------------------------
(* The gateway and the unreachable validator (specification SpecGateway) *)

\* C11: when the RPC to the validator fails at the transport level, the
\* service-local authenticator fails with an error whose status differs from
\* the 401 Unauthorized it raises for an invalid token.
C11_BackendUnavailableDistinct ==
    (resp.op = "get_current_user" /\ resp.detail = "gRPC error: UNAVAILABLE") =>
        resp.status # HTTP_401_UNAUTHORIZED

\* the last request went through the gateway
ThroughGateway == resp.op \in {"gateway_validate", "gateway_forward"}

\* the gateway authenticated the last request and issued its downstream call
Forwarded == ThroughGateway /\ resp.token # NoToken

\* C12: the gateway accepts a bearer token only if its signature and expiry
\* check pass and the claims sub, role and id are all present; every other
\* token is rejected with 401 and no downstream call is issued.
C12_GatewayAccepts ==
    ThroughGateway =>
        IF /\ Verifiable(resp.req, now)
           /\ resp.req.sub # None
           /\ resp.req.role # None
           /\ resp.req.id # NoId
        THEN Forwarded
        ELSE /\ ~Forwarded
             /\ resp.status = HTTP_401_UNAUTHORIZED

\* C13: every token the gateway attaches to a downstream call is freshly
\* signed, embeds the sub, role and id of the authenticated identity and
\* expires 30 minutes after it was minted.
C13_InternalTokenExpires ==
    Forwarded =>
        /\ resp.token.kind = "jwt"
        /\ resp.token.sig = "good"
        /\ resp.token.sub = resp.req.sub
        /\ resp.token.role = resp.req.role
        /\ resp.token.exp = now + expires_delta_minutes * 60

C17_TokenCarriesId ==
    /\ (resp.op = "register" /\ resp.status = 200) =>
          /\ resp.token.sub = resp.req
          /\ resp.token.exp = now + 1800
          /\ HasUsername(users, resp.req)
          /\ resp.token.role = ByUsername(users, resp.req).role
          /\ resp.token.id = ByUsername(users, resp.req).id
    /\ (Forwarded /\ resp.req \in IssuedTokens /\ HasUsername(users, resp.req.sub)) =>
          resp.token.id = ByUsername(users, resp.req.sub).id

-----------------------------------------------------------------------------
(* Registration, continued (specification SpecRegister) *)

\* the token:<username> entries of cache c
TokenEntries(c) == {e \in c : e.val.tag = "token"}

\* C15: Register(u, p, r) fails with 400 whenever the cache holds a record
\* under user:<u> or the store holds an identity named u, and then creates no
\* identity and mints no token; otherwise it persists exactly one new
\* identity with a hashed password, mints a token with a 30-minute expiry and
\* stores it under token:<u>.
C15_Register ==
    [][resp'.op = "register" =>
          IF \/ \E e \in cache : e.key = UserKey(resp'.req)
             \/ \E u \in users : u.username = resp'.req
          THEN /\ resp'.status = 400
               /\ resp'.token = NoToken
               /\ users' = users
               /\ nextId' = nextId
               /\ TokenEntries(cache') = TokenEntries(cache)
          ELSE /\ resp'.status = 200
               /\ Cardinality(users' \ users) = 1
               /\ users \subseteq users'
               /\ \A row \in users' \ users :
                     /\ row.username = resp'.req
                     /\ row.id \notin {u.id : u \in users}
                     /\ \E password \in Passwords :
                           row.hashed_password = [scheme |-> "bcrypt", of |-> password]
                     /\ resp'.token.role = row.role
               /\ resp'.token.kind = "jwt"
               /\ resp'.token.sig = "good"
               /\ resp'.token.sub = resp'.req
               /\ resp'.token.exp = now + 1800
               /\ \E e \in cache' :
                     /\ e.key = TokenKey(resp'.req)
                     /\ e.val = TokenValue(resp'.token)]_vars

\* a Register of a free username succeeded after an earlier identity: its row
\* is in the store and its token under token:<username>
C15_Witness ==
    /\ resp.op = "register"
    /\ resp.status = 200
    /\ Cardinality(users) = 2
    /\ \E u \in users : u.username = resp.req /\ u.hashed_password.scheme = "bcrypt"
    /\ \E e \in cache : e.key = TokenKey(resp.req) /\ e.val.token = resp.token

\* C16: the store is authoritative for username uniqueness: a Register for a
\* username that no identity in the store carries is not refused as a
\* duplicate because of what the cache holds.
C16_StoreAuthoritative ==
    (resp.op = "register" /\ resp.status = 400) =>
        \E u \in users : u.username = resp.req

-----------------------------------------------------------------------------
(* Administration (specification SpecAdmin) *)

\* C18: in every reachable state every identity in the store has a role in
\* {user, admin}.
C18_RolesEnumerated == \A u \in users : u.role \in {"user", "admin"}

AdminOps == {"create_user", "update_user", "delete_user", "change_user_role", "get_user_by_id"}

\* the validator accepts the token and the store holds the identity it names
Authenticates(token) ==
    /\ Verifiable(token, now)
    /\ \E u \in users : u.username = token.sub

\* the identity the token names is an admin in the store
StoreAdmin(token) == \E u \in users : u.username = token.sub /\ u.role = "admin"

\* the admin-service request op, presented with the token
AdminRequest(op, token) ==
    \/ /\ op = "create_user"
       /\ \E u \in Names, r \in RoleValues : create_user(token, u, "pw1", r)
    \/ /\ op = "change_user_role"
       /\ \E id \in Ids, r \in RoleValues : change_user_role(token, id, r)
    \/ /\ op = "update_user"
       /\ \E id \in Ids, r \in RoleValues :
             update_user(token, id, [username |-> Absent, role |-> r, password |-> Absent])
    \/ /\ op = "delete_user"
       /\ \E id \in Ids : delete_user(token, id)
    \/ /\ op = "get_user_by_id"
       /\ \E id \in Ids : get_user_by_id(token, id)

\* C19: an admin-service operation runs its body only for a caller whose
\* role in the store is "admin" when it authenticates; every other
\* authenticated caller is answered 403 with store and cache unchanged, also
\* one whose unexpired token was issued while it was admin.
C19_AdminOnly ==
    [][resp'.op \in AdminOps =>
          \A t \in IssuedTokens :
             (~(Authenticates(t) /\ StoreAdmin(t)) /\ AdminRequest(resp'.op, t)) =>
                /\ resp'.status = IF Authenticates(t) THEN 403 ELSE 401
                /\ users' = users
                /\ nextId' = nextId
                /\ cache' = cache]_vars

\* a caller was answered 403 while every authenticated non-admin holds a
\* token with role claim "admin": it was demoted after the token was issued
C19_Witness ==
    /\ resp.op \in AdminOps
    /\ resp.status = 403
    /\ \A t \in IssuedTokens : (Authenticates(t) /\ ~StoreAdmin(t)) => t.role = "admin"

-----------------------------------------------------------------------------
(* Concurrent registration (specification SpecRace) *)

\* C20: under any interleaving of two concurrent Register calls for the same
\* username at most one identity with that username exists afterwards, and
\* the call that does not return a token fails with 400, not with any other
\* error.
C20_ConcurrentRegister ==
    /\ \A u1 \in users, u2 \in users : u1.username = u2.username => u1 = u2
    /\ resp.op = "register" => resp.status \in {200, 400}

-----------------------------------------------------------------------------
(* Cache invalidation on identity mutation (specification SpecIssue) *)

\* C21: after an admin delete_user, or an update_user that changes the
\* username or the password of an identity, the cache holds no
\* token:<username> entry of the old identity, and a Login that succeeds
\* names an identity of the store.
C21_MutationDropsToken ==
    [][/\ resp'.op \in {"delete_user", "update_user"} =>
             \A old \in users \ users' :
                (~\E u \in users' : /\ u.id = old.id
                                    /\ u.username = old.username
                                    /\ u.hashed_password = old.hashed_password)
                   => ~\E e \in cache' : e.key = TokenKey(old.username)
       /\ (resp'.op = "login" /\ resp'.status = 200) =>
             \E u \in users : u.username = resp'.req]_vars

-----------------------------------------------------------------------------
(* Token binding (specification SpecBinding) *)

\* C22: a token validates only as an identity it was minted for: when
\* ValidateToken answers valid=true with a username, the identity that holds
\* the username in the store is one the presented token was issued to, also
\* after deletes and renames and a Register of the freed username.
C22_TokenBoundToIdentity ==
    (resp.op = "ValidateToken" /\ resp.body.valid) =>
        \E pair \in issued.pairs :
           /\ pair.token = resp.req
           /\ \E u \in users : u.username = resp.body.username /\ u.id = pair.id

-----------------------------------------------------------------------------
(* Invalidation of the listings (specification SpecInvalidate) *)

\* the identity that presents the token
Caller(token) == ByUsername(users, token.sub)

\* C23: after an admin create_user, update_user, delete_user or
\* change_user_role has completed, the cache holds no key with the prefix
\* admin:users:, and after a dashboard update or delete by a user it holds no
\* key with the prefix dashboard:user:<that user's id>:.
C23_PrefixInvalidation ==
    [][/\ (/\ resp'.op \in {"create_user", "update_user", "delete_user", "change_user_role"}
           /\ resp'.status = 200)
          => ~\E e \in cache' : e.key[1] = "admin:users"
       /\ (/\ resp'.op \in {"update_dashboard", "delete_dashboard"}
           /\ resp'.status = 200)
          => ~\E e \in cache' : /\ e.key[1] = "dashboard"
                                /\ e.key[2] = IdStr(Caller(resp'.req).id)]_vars

-----------------------------------------------------------------------------
(* Redis failing (specification SpecRedisError) *)

\* C24: a failure of the cache write or delete that follows the store commit
\* is ignored: a register or delete_user that changed the store answers with
\* its success result, and a login answers 200 or 401, never an error caused
\* by the cache.
C24_CacheFailureIgnored ==
    [][/\ (resp'.op \in {"register", "delete_user"} /\ users' # users) => resp'.status = 200
       /\ resp'.op = "login" => resp'.status \in {200, 401}]_vars

-----------------------------------------------------------------------------
(* The RPC in flight (specification SpecWaiting) *)

\* C25: every get_current_user call that has sent its RPC eventually
\* completes, with an identity or an error, also when the validator never
\* answers.
C25_AuthenticateCompletes == InFlight ~> (rpc = NoRpc)

-----------------------------------------------------------------------------
(* Time basis of the expiry (specification SpecIssue) *)

\* C26: on every server UTC offset, the freshness test login applies to the
\* token it finds under token:<username> accepts the token exactly when its
\* exp, set by create_access_token, lies after the true current time.
C26_SameTimeBasis ==
    \A u \in Names :
       (/\ redis_has(cache, TokenKey(u))
        /\ CachedToken(u).kind = "jwt"
        /\ CachedToken(u).sig = "good"
        /\ CachedToken(u).exp # NoExp)
          => (login_cached(u) <=> CachedToken(u).exp > now)

-----------------------------------------------------------------------------
(* Dashboard isolation (specification SpecDashboard) *)

\* C27: every answer of GET / to a caller whose role in the store is not
\* admin holds only history entries with the caller's user_id, from the store
\* or from the cache and after any role changes; and an update or delete by
\* such a caller touches only entries with the caller's user_id, answering 404
\* with the store unchanged otherwise.
C27_DashboardIsolation ==
    [][(/\ resp'.op \in {"get_dashboard", "update_dashboard", "delete_dashboard"}
        /\ resp'.status \in {200, 404}
        /\ Caller(resp'.req).role # "admin")
          => /\ resp'.op = "get_dashboard" =>
                   \A h \in resp'.body : h.user_id = Caller(resp'.req).id
             /\ \A h \in history \ history' : h.user_id = Caller(resp'.req).id
             /\ resp'.status = 404 => history' = history]_vars

-----------------------------------------------------------------------------
(* Admin self-protection (specification SpecAdmin) *)

\* the admin-service request op on the identity user_id, presented with the
\* token
RequestOn(op, token, user_id) ==
    \/ /\ op = "delete_user"
       /\ delete_user(token, user_id)
    \/ /\ op = "change_user_role"
       /\ \E r \in RoleValues : change_user_role(token, user_id, r)
    \/ /\ op = "update_user"
       /\ \E r \in RoleValues :
             update_user(token, user_id, [username |-> Absent, role |-> r, password |-> Absent])

\* C28: delete_user, change_user_role and update_user called by an admin on
\* the admin's own id leave the caller's record in the store with role admin.
C28_AdminSelfProtection ==
    [][resp'.op \in {"delete_user", "change_user_role", "update_user"} =>
          \A t \in IssuedTokens :
             (/\ Authenticates(t)
              /\ StoreAdmin(t)
              /\ RequestOn(resp'.op, t, Caller(t).id))
                => \E u \in users' : u.id = Caller(t).id /\ u.role = "admin"]_vars

-----------------------------------------------------------------------------
(* Coherence of user:<id> (specification SpecCoherence) *)

\* C29: once a get_user_by_id, update_user, change_user_role or delete_user
\* of an admin has completed, in whatever order they ran, the cache entry user:<id>, if
\* present, is the record of identity id as the store holds it, and there is
\* none for an id that no identity has.
C29_UserEntryCoherent ==
    [][(/\ resp'.op \in {"get_user_by_id", "update_user", "change_user_role", "delete_user"}
        /\ resp'.status \notin {401, 403}) =>
          \A id \in Ids :
             redis_has(cache', UserKey(IdStr(id))) =>
                /\ HasId(users', id)
                /\ redis_get(cache', UserKey(IdStr(id))).tag = "json"]_vars

-----------------------------------------------------------------------------
(* Order of store and cache calls (specification SpecOrder) *)

CacheWrites == {"cache.setex", "cache.delete"}

\* C30: on every mutating request path the store commit comes before the
\* cache writes: among the calls a running handler has made, a cache set or
\* delete is preceded by the commit of that request.
C30_StoreBeforeCache ==
    \A i \in 1..Len(running.done) :
       running.done[i].kind \in CacheWrites =>
          \E j \in 1..(i - 1) : running.done[j].kind = "db.commit"

\* a delete_user is about to return: it has committed the delete of a row
\* and then deleted user:<id>, user:<username> and admin:users:*
C30_Witness ==
    /\ running.op = "delete_user"
    /\ Len(running.todo) = 1
    /\ \E i \in 1..Len(running.done) :
          /\ running.done[i].kind = "db.commit"
          /\ Cardinality(running.done[i].rows.users) = 1
          /\ \A j \in (i + 1)..Len(running.done) : running.done[j].kind = "cache.delete"
          /\ Len(running.done) = i + 3

-----------------------------------------------------------------------------
(* One RPC per authentication (specification SpecWaiting) *)

\* the step ends the RPC in flight or puts another request on the channel
RpcMoves == InFlight /\ rpc' # rpc

\* C31: a call of the service-local get_current_user puts at most one
\* ValidateToken request on the channel: a request is sent only by a call that
\* starts, and the RPC in flight ends either with a valid verdict, after
\* which the call goes on to its store lookup, or with a rejection (verdict
\* valid = false, an error status, or a channel failure), which is answered
\* 401 at once with nothing left in flight, never sent again.
C31_OneRpcNoRetry ==
    [][/\ (InFlight' /\ rpc' # rpc) => (rpc = NoRpc /\ rpc'.sent = 1)
       /\ RpcMoves =>
             LET response == ValidateTokenResponse(rpc.call, users, now) IN
             \/ /\ response.status = GRPC_OK
                /\ response.valid
                /\ rpc' = [pending |-> TRUE, username |-> response.username]
             \/ /\ rpc' = NoRpc
                /\ resp'.op = "get_current_user"
                /\ resp'.status = HTTP_401_UNAUTHORIZED
                /\ resp'.req = rpc.call]_vars

\* a verdict of valid = false for a token that once validated was answered
\* 401, and the service has no RPC in flight and no lookup pending
C31_Witness ==
    /\ resp.op = "get_current_user"
    /\ resp.status = HTTP_401_UNAUTHORIZED
    /\ resp.detail = "Invalid token: " \o ERR_EXPIRED
    /\ resp.req \in IssuedTokens
    /\ rpc = NoRpc

-----------------------------------------------------------------------------
(* Generation and search (specification SpecGenerate) *)

GenerateOps == {"generate_image_endpoint", "search_query"}

\* a request of the operation for the text, answered or failing
GenerateRequest(op, token, text) ==
    IF op = "generate_image_endpoint"
    THEN generate_image_endpoint(token, text) \/ generate_image_endpoint_error(token, text)
    ELSE search_query(token, text) \/ search_query_error(token, text)

\* the entries under dashboard:user:<user_id>:
DashboardEntries(c, user_id) ==
    {e \in c : e.key[1] = "dashboard" /\ e.key[2] = IdStr(user_id)}

\* the entries under image:... and search:...
ResultEntries(c) == {e \in c : e.key[1] \in {"image", "search"}}

\* C32: image generate and search query.  A request answered from the cache
\* leaves history and cache as they are.  A request that is not cached and
\* succeeds adds exactly one history row, owned by the caller and of the
\* request's type and text, leaves no key under dashboard:user:<caller id>:,
\* caches the result under the request's key and touches no other entry.  A
\* request that fails leaves the cached results as they were.
C32_GenerateEffects ==
    [][resp'.op \in GenerateOps =>
          \A t \in IssuedTokens, text \in Prompts :
             LET user == service_get_current_user(t)
                 type == IF resp'.op = "generate_image_endpoint" THEN "image" ELSE "search"
                 key == ResultKey(type, user.id, text) IN
             (user.ok /\ resp'.req = t /\ GenerateRequest(resp'.op, t, text)) =>
                IF resp'.status # 200
                THEN ResultEntries(cache') = ResultEntries(cache)
                ELSE IF redis_has(cache, key)
                THEN history' = history /\ cache' = cache
                ELSE /\ \E h \in history' :
                           /\ h \notin history
                           /\ history' = history \cup {h}
                           /\ h.user_id = user.id
                           /\ h.type = type
                           /\ h.query = text
                     /\ DashboardEntries(cache', user.id) = {}
                     /\ redis_has(cache', key)
                     /\ {e \in cache' : e.key # key}
                           = {e \in cache : e \notin DashboardEntries(cache, user.id)}]_vars

\* a search was answered anew while the caller's dashboard was cached under
\* two keys and the other identity's under one: the caller has a row and a
\* cached result, none of its dashboard keys is left, the other's is
C32_Witness ==
    /\ resp.op = "search_query"
    /\ resp.status = 200
    /\ \E u \in users, v \in users :
          /\ resp.req.sub = u.username
          /\ v # u
          /\ redis_has(cache, ResultKey("search", u.id, "cat"))
          /\ redis_has(cache, ResultKey("image", u.id, "cat"))
          /\ DashboardEntries(cache, u.id) = {}
          /\ DashboardEntries(cache, v.id) # {}
          /\ Cardinality({h \in history : h.user_id = u.id}) = 2

====
